---------------------------- MODULE Spec2Model ----------------------------
(***************************************************************************)
(* A model of the OpenFBX loader (src/src/ofbx.cpp, src/src/ofbx.h).       *)
(*                                                                         *)
(*   TokSpec    the binary tokenizer (tokenize / readElement /             *)
(*              readProperty / deleteElement) run on byte buffers, and     *)
(*              the text tokenizer (tokenizeText / readTextElement /       *)
(*              readTextProperty) run on the same document as text         *)
(*   LoadSpec   load: the tokenizers' outcome, parseConnections,           *)
(*              parseTakes, parseObjects and the scene they build          *)
(*   CurveSpec  AnimationCurveImpl::Evaluate and its one-slot cache        *)
(*   MatrixSpec Model::GetMatrix and its one-slot cache                    *)
(***************************************************************************)
EXTENDS Integers, Sequences, FiniteSets, TLC

VARIABLES
    \* ---- binary tokenizer (Cursor, Element and Property heap) ----
    data,        \* the byte buffer handed to tokenize (offset k is data[k+1])
    version,     \* header->version as tokenize reads it
    current,     \* cursor.current - cursor.begin
    stack,       \* the active readElement calls, innermost last
    elements,    \* every Element allocated so far, by address 1..Len
    properties,  \* every Property allocated so far, by address 1..Len
    liveE,       \* addresses of elements not yet deleted
    liveP,       \* addresses of properties not yet deleted
    doubleFree,  \* TRUE once some element or property was deleted twice
    status,      \* "running", "ok", "error", "fault", "destroyed"
    s_message,   \* Error::s_message
    \* ---- text tokenizer ----
    text,        \* the character buffer handed to tokenizeText
    past,        \* the byte that lies just after the end of text
    textRoot,    \* the children of the root element tokenizeText returned
    textStatus,  \* "none", "ready", "ok", "error", "aborted"
    \* ---- load and the Scene it builds ----
    file,        \* the input of load: what the tokenizers make of the buffer
    pc,          \* the statement of load (or pass of parseObjects) to run next
    result,      \* what load returned: "none" (not yet), "scene", "null"
    ran,         \* the tokenizers and parse stages run so far, in order
    m_connections,
    m_take_infos,
    m_root,      \* Scene::m_root, an address in objects or Null
    m_object_map,
    m_all_objects,
    m_meshes,
    objects,     \* every Object constructed so far, by address 1..Len
    todo,        \* keys of m_object_map the running pass has yet to visit
    conIdx,      \* index of the next connection to resolve
    lastTake,    \* takeIndex + 1 of the latest PrepTakeConnections call, 0 before one
    prepCalls,   \* the number of PrepTakeConnections calls made
    m_scene_frame_rate, \* Scene::m_scene_frame_rate, in thousandths
    \* ---- one AnimationCurveImpl ----
    times,       \* AnimationCurveImpl::times
    values,      \* AnimationCurveImpl::values
    mLastEvalTime,
    mLastEvalValue,
    evalLog,     \* the Evaluate calls made so far: [time, ret, computed]
    \* ---- a Model and its parent ----
    mCacheTime,  \* Model::mCacheTime of each node
    mLocalCache, \* Model::mLocalCache of each node
    mGlobalCache,\* Model::mGlobalCache of each node
    lastCall,    \* the latest GetMatrix call and the matrix it returned
    \* ---- the properties of a Model that evalLocal and IsVisible read ----
    evalNode,    \* RotationActive, RotationOrder, the pivots, offsets, pre- and post-rotation
    evalCall,    \* the latest evalLocal call and the matrix it wrote
    visNodes,    \* Show, VisibilityInheritance and Visibility (by time) of each node
    visCall      \* the latest IsVisible call and what it returned

textVars == <<text, past, textRoot, textStatus>>

tokOnly == <<data, version, current, stack, elements, properties,
             liveE, liveP, doubleFree, status, textVars>>

tokVars == <<tokOnly, s_message>>

loadOnly == <<file, pc, result, ran, m_connections, m_take_infos, m_root,
              m_object_map, m_all_objects, m_meshes, objects, todo, conIdx>>

loadVars == <<loadOnly, s_message>>

takeVars == <<lastTake, prepCalls, m_scene_frame_rate>>

curveVars == <<times, values, mLastEvalTime, mLastEvalValue, evalLog>>

modelVars == <<evalNode, evalCall, visNodes, visCall>>

matrixVars == <<mCacheTime, mLocalCache, mGlobalCache, lastCall, modelVars>>

\* what the binary tokenizer leaves alone
notTok == <<loadOnly, takeVars, curveVars, matrixVars, textVars>>

\* what load leaves alone
notLoad == <<tokOnly, takeVars, curveVars, matrixVars>>

vars == <<tokOnly, loadOnly, takeVars, s_message, curveVars, matrixVars>>

-----------------------------------------------------------------------------
(* Bytes and little-endian integers.                                       *)

Byte == 0..255

RECURSIVE LE(_, _)
\* the w-byte little-endian encoding of n
LE(n, w) == IF w = 0 THEN <<>> ELSE <<n % 256>> \o LE(n \div 256, w - 1)

RECURSIVE FromLE(_)
\* the value of a little-endian byte sequence
FromLE(bs) == IF bs = <<>> THEN 0 ELSE bs[1] + 256 * FromLE(Tail(bs))

\* the bytes of buf at offsets [from, from + n)
Bytes(buf, from, n) == [k \in 1..n |-> buf[from + k]]

RECURSIVE Zeros(_)
Zeros(n) == IF n = 0 THEN <<>> ELSE <<0>> \o Zeros(n - 1)

RECURSIVE Flatten(_)
Flatten(ss) == IF ss = <<>> THEN <<>> ELSE Head(ss) \o Flatten(Tail(ss))

RECURSIVE SumLen(_)
SumLen(ss) == IF ss = <<>> THEN 0 ELSE Len(Head(ss)) + SumLen(Tail(ss))

-----------------------------------------------------------------------------
(* Program constants of the binary dialect.                                *)

HeaderSize == 27          \* sizeof(Header): magic[21], reserved[2], u32 version
VersionOffset == 23       \* offset of Header::version
Version64 == 7500         \* first version with 64-bit offsets
SentinelShort == 13       \* BLOCK_SENTINEL_LENGTH below Version64
SentinelLong == 25        \* BLOCK_SENTINEL_LENGTH from Version64 on

\* property tags (ASCII)
TagS == 83
TagY == 89
TagC == 67
TagI == 73
TagF == 70
TagD == 68
TagL == 76
TagR == 82
Tagb == 98
Tagc == 99
Tagf == 102
Tagd == 100
Tagl == 108
Tagi == 105

MsgPastEnd == "Reading past the end"
MsgUnknownType == "Unknown property type"


-----------------------------------------------------------------------------
(* Input buffers.  A logical document is a sequence of elements            *)
(* [id, props, children]; File encodes it in the binary dialect with       *)
(* offset width w and sentinel length s, and the tokenizer is run on       *)
(* every prefix of every encoded document.                                 *)

Prop(tag, payload) == [tag |-> tag, payload |-> payload]
Elem(id, props, children) == [id |-> id, props |-> props, children |-> children]

PropBytes(p) == <<p.tag>> \o p.payload

RECURSIVE PropsBytes(_)
PropsBytes(ps) == IF ps = <<>> THEN <<>> ELSE PropBytes(Head(ps)) \o PropsBytes(Tail(ps))

\* an end offset of zero written where an element would begin
ZeroOffset == [zero |-> TRUE]

RECURSIVE EncSize(_, _, _)
RECURSIVE EncListSize(_, _, _)
\* the encoded size of one element
EncSize(el, w, s) ==
    IF el = ZeroOffset THEN w
    ELSE 3 * w + 1 + Len(el.id) + Len(PropsBytes(el.props))
         + (IF el.children = <<>> THEN 0 ELSE EncListSize(el.children, w, s) + s)
EncListSize(els, w, s) ==
    IF els = <<>> THEN 0 ELSE EncSize(Head(els), w, s) + EncListSize(Tail(els), w, s)

RECURSIVE Enc(_, _, _, _)
RECURSIVE EncList(_, _, _, _)
\* the bytes of one element that starts at offset start
Enc(el, start, w, s) ==
    LET pb == PropsBytes(el.props)
        hd == 3 * w + 1 + Len(el.id)
    IN  IF el = ZeroOffset THEN LE(0, w)
        ELSE LE(start + EncSize(el, w, s), w) \o LE(Len(el.props), w) \o LE(Len(pb), w)
             \o <<Len(el.id)>> \o el.id \o pb
             \o (IF el.children = <<>> THEN <<>>
                 ELSE EncList(el.children, start + hd + Len(pb), w, s) \o Zeros(s))
EncList(els, start, w, s) ==
    IF els = <<>> THEN <<>>
    ELSE Enc(Head(els), start, w, s)
         \o EncList(Tail(els), start + EncSize(Head(els), w, s), w, s)

\* header, element stream, and the zero end-offset that closes the top level
File(doc, v, w, s) ==
    Zeros(VersionOffset) \o LE(v, 4) \o EncList(doc, HeaderSize, w, s) \o LE(0, w)

PC == Prop(TagC, <<1>>)
PY == Prop(TagY, <<1, 0>>)
PI == Prop(TagI, LE(7, 4))
PF == Prop(TagF, Zeros(4))
PD == Prop(TagD, Zeros(8))
PL == Prop(TagL, LE(5, 8))
PS == Prop(TagS, LE(2, 4) \o <<104, 105>>)
PR == Prop(TagR, LE(1, 4) \o <<9>>)
Pi == Prop(Tagi, LE(1, 4) \o LE(0, 4) \o LE(4, 4) \o LE(5, 4))
PZ == Prop(90, <<>>)
\* the doubles 2.5, 1.5e-13 and 1.5e+20
PDfrac == Prop(TagD, <<0, 0, 0, 0, 0, 0, 4, 64>>)
PDsmall == Prop(TagD, <<225, 24, 55, 206, 81, 28, 69, 61>>)
PDbig == Prop(TagD, <<48, 41, 136, 26, 86, 67, 32, 68>>)

Docs ==
    { <<>>,
      << Elem(<<65>>, <<PC>>, <<>>) >>,
      << Elem(<<65>>, <<>>, <<>>), Elem(<<66>>, <<PD, PI>>, <<>>) >>,
      << Elem(<<65>>, <<PS>>,
              << Elem(<<66>>, <<PI>>, <<>>),
                 Elem(<<67>>, <<PR, Pi>>, << Elem(<<68>>, <<PY>>, <<>>) >>) >>) >>,
      << Elem(<<65>>, <<PZ>>, <<>>) >>,
      << Elem(<<65>>, <<PF, PL>>, <<>>) >>,
      << Elem(<<65>>, <<PDfrac, PDsmall>>, <<>>) >>,
      << Elem(<<65>>, <<PDbig>>, <<>>) >>,
      << Elem(<<65>>, <<>>, <<>>), ZeroOffset, Elem(<<66>>, <<>>, <<>>) >>,
      << Elem(<<65>>, <<PC>>,
              << Elem(<<66>>, <<>>, <<>>), ZeroOffset, Elem(<<67>>, <<>>, <<>>) >>) >> }

\* [v, w, s]: header version, and the width and sentinel the file is written
\* with; the last version is 65536 + 7400, one of the 32-bit values whose low
\* 16 bits lie below Version64
Dialects ==
    { <<7400, 4, SentinelShort>>, <<7500, 8, SentinelLong>>, <<72936, 8, SentinelLong>> }

Versions == { d[1] : d \in Dialects }

\* what a read outside the buffer may return
GarbageBytes == { 0, TagC, TagD, TagS }

-----------------------------------------------------------------------------
(* The element tree on the heap and deleteElement.                         *)

Null == 0

NewElement(id) == [id |-> id, first_property |-> Null, child |-> Null, sibling |-> Null]

RECURSIVE PropChain(_, _)
\* the properties ~Property deletes: p and everything reached through next
PropChain(ps, p) == IF p = Null THEN {} ELSE {p} \cup PropChain(ps, ps[p].next)

RECURSIVE SiblingChain(_, _)
\* the elements the do-while of deleteElement deletes
SiblingChain(es, e) == IF e = Null THEN {} ELSE {e} \cup SiblingChain(es, es[e].sibling)

RECURSIVE DeletedElements(_, _)
\* deleteElement(el): el's child subtree by recursion, then el and its siblings
DeletedElements(es, el) ==
    IF el = Null THEN {}
    ELSE DeletedElements(es, es[el].child) \cup SiblingChain(es, el)

RECURSIVE DeletedProperties(_, _, _)
\* deleteElement(el): el's property chain, and those the recursion on child deletes
DeletedProperties(es, ps, el) ==
    IF el = Null THEN {}
    ELSE PropChain(ps, es[el].first_property) \cup DeletedProperties(es, ps, es[el].child)

-----------------------------------------------------------------------------
(* The binary tokenizer.                                                   *)

size == Len(data)

\* readElementOffset takes the version as u16
OffsetWidth(v) == IF (v % 65536) >= Version64 THEN 8 ELSE 4

\* readElement compares the u32 version
BlockSentinelLength(v) == IF v >= Version64 THEN SentinelLong ELSE SentinelShort

\* read<T>: the bounds test of a read of n bytes at offset at
CanRead(at, n) == at + n <= size

Frame(e, endOff, count, ph) ==
    [element |-> e, end_offset |-> endOff, prop_count |-> count, i |-> 0,
     phase |-> ph, prop_link |-> Null, link |-> Null]

Top == stack[Len(stack)]

RootElement == 1

RECURSIVE UnwindElements(_, _)
\* the elements deleted while an error returns through the calls of stack
UnwindElements(es, st) ==
    IF st = <<>> THEN {}
    ELSE DeletedElements(es, st[Len(st)].element)
         \cup UnwindElements(es, SubSeq(st, 1, Len(st) - 1))

RECURSIVE UnwindProperties(_, _, _)
UnwindProperties(es, ps, st) ==
    IF st = <<>> THEN {}
    ELSE DeletedProperties(es, ps, st[Len(st)].element)
         \cup UnwindProperties(es, ps, SubSeq(st, 1, Len(st) - 1))

RECURSIVE UnwindCount(_, _, _)
\* the number of delete calls made while unwinding
UnwindCount(es, ps, st) ==
    IF st = <<>> THEN 0
    ELSE Cardinality(DeletedElements(es, st[Len(st)].element))
         + Cardinality(DeletedProperties(es, ps, st[Len(st)].element))
         + UnwindCount(es, ps, SubSeq(st, 1, Len(st) - 1))

\* an error return from the innermost call up to tokenize: every readElement
\* on the way deletes its element, tokenize deletes the root
Fail(msg) ==
    LET de == UnwindElements(elements, stack)
        dp == UnwindProperties(elements, properties, stack)
    IN  /\ status' = "error"
        /\ s_message' = msg
        /\ liveE' = liveE \ de
        /\ liveP' = liveP \ dp
        /\ doubleFree' = (doubleFree
                          \/ ~(de \subseteq liveE) \/ ~(dp \subseteq liveP)
                          \/ UnwindCount(elements, properties, stack)
                               # Cardinality(de) + Cardinality(dp))
        /\ UNCHANGED <<data, version, current, stack, elements, properties>>

\* *link = child; link = &(*link)->sibling, in the caller's frame
LinkChild(es, fr, e) ==
    IF fr.link = Null THEN [es EXCEPT ![fr.element].child = e]
    ELSE [es EXCEPT ![fr.link].sibling = e]

\* readElement returns element e to the frame below the top
ReturnElement(e, cur) ==
    LET n == Len(stack)
        caller == stack[n - 1]
    IN  /\ elements' = LinkChild(elements, caller, e)
        /\ stack' = [SubSeq(stack, 1, n - 1) EXCEPT ![n - 1].link = e]
        /\ current' = cur
        /\ UNCHANGED <<data, version, properties, liveE, liveP, doubleFree,
                       status, s_message>>

\* the loop conditions under which the caller calls readElement
CallsReadElement ==
    \/ Top.phase = "tokenize"
    \/ /\ Top.phase = "children"
       /\ current < Top.end_offset - BlockSentinelLength(version)

\* readElement up to the construction of the element
ReadElement ==
    /\ UNCHANGED notTok
    /\ status = "running"
    /\ CallsReadElement
    /\ LET w == OffsetWidth(version)
           end_offset == FromLE(Bytes(data, current, w))
           c1 == current + w
           c2 == c1 + 2 * w
           prop_count == FromLE(Bytes(data, c1, w))
           idLen == data[c2 + 1]
           c3 == c2 + 1
           c4 == c3 + idLen
       IN  IF ~CanRead(current, w) THEN Fail(MsgPastEnd)
           ELSE IF end_offset = 0 THEN
               \* return nullptr
               /\ current' = c1
               /\ status' = IF Top.phase = "tokenize" THEN "ok" ELSE status
               /\ UNCHANGED <<data, version, stack, elements, properties,
                              liveE, liveP, doubleFree, s_message>>
           ELSE IF ~CanRead(c1, 2 * w) THEN Fail(MsgPastEnd)
           ELSE IF ~CanRead(c2, 1) THEN Fail(MsgPastEnd)
           ELSE IF ~CanRead(c3, idLen) THEN Fail(MsgPastEnd)
           ELSE
               /\ elements' = Append(elements, NewElement(Bytes(data, c3, idLen)))
               /\ liveE' = liveE \cup {Len(elements) + 1}
               /\ stack' = Append(stack, Frame(Len(elements) + 1, end_offset,
                                               prop_count, "props"))
               /\ current' = c4
               /\ UNCHANGED <<data, version, properties, liveP, doubleFree,
                              status, s_message>>

\* the size of the scalar with tag t, 0 when t is no scalar tag
ScalarSize(t) ==
    CASE t = TagY -> 2
      [] t = TagC -> 1
      [] t = TagI -> 4
      [] t = TagF -> 4
      [] t = TagD -> 8
      [] t = TagL -> 8
      [] OTHER -> 0

IsArrayTag(t) == t \in {Tagb, Tagc, Tagf, Tagd, Tagl, Tagi}

\* readProperty with type byte t: [ok, msg, begin, end], end being the cursor
\* after the property
ReadPropertyOf(t, cur) ==
    LET after == cur + 1
        len == FromLE(Bytes(data, after, 4))
        comp_len == FromLE(Bytes(data, after + 8, 4))
        err(m) == [ok |-> FALSE, msg |-> m, begin |-> 0, end |-> 0]
        val(b, e) == [ok |-> TRUE, msg |-> "", begin |-> b, end |-> e]
    IN  IF t = TagS THEN
            IF ~CanRead(after, 4) THEN err(MsgPastEnd)
            ELSE IF after + 4 + len > size THEN err(MsgPastEnd)
            ELSE val(after + 4, after + 4 + len)
        ELSE IF ScalarSize(t) > 0 THEN val(after, after + ScalarSize(t))
        ELSE IF t = TagR THEN
            IF ~CanRead(after, 4) THEN err(MsgPastEnd)
            ELSE IF after + 4 + len > size THEN err(MsgPastEnd)
            ELSE val(after, after + 4 + len)
        ELSE IF IsArrayTag(t) THEN
            IF ~CanRead(after, 12) THEN err(MsgPastEnd)
            ELSE IF after + 12 + comp_len > size THEN err(MsgPastEnd)
            ELSE val(after, after + 12 + comp_len)
        ELSE err(MsgUnknownType)

\* the type bytes *cursor->current may yield: the byte inside the buffer, any
\* byte when the cursor is outside it
TypeBytes(cur) == IF cur < size THEN {data[cur + 1]} ELSE GarbageBytes

\* one iteration of the property loop of readElement
ReadProperty ==
    /\ UNCHANGED notTok
    /\ status = "running"
    /\ Top.phase = "props"
    /\ Top.i < Top.prop_count
    /\ IF current = size THEN Fail(MsgPastEnd)
       ELSE \E t \in TypeBytes(current) :
            LET r == ReadPropertyOf(t, current)
                p == Len(properties) + 1
                n == Len(stack)
            IN  IF ~r.ok THEN Fail(r.msg)
                ELSE
                  /\ properties' = LET ps == Append(properties,
                                          [type |-> t, begin |-> r.begin,
                                           end |-> r.end, next |-> Null])
                                   IN  IF Top.prop_link = Null THEN ps
                                       ELSE [ps EXCEPT ![Top.prop_link].next = p]
                  /\ elements' = IF Top.prop_link = Null
                                 THEN [elements EXCEPT ![Top.element].first_property = p]
                                 ELSE elements
                  /\ liveP' = liveP \cup {p}
                  /\ stack' = [stack EXCEPT ![n].prop_link = p, ![n].i = Top.i + 1]
                  /\ current' = r.end
                  /\ UNCHANGED <<data, version, liveE, doubleFree, status, s_message>>

\* the read of the type byte outside the buffer may also end the process
ReadPropertyFault ==
    /\ UNCHANGED notTok
    /\ status = "running"
    /\ Top.phase = "props"
    /\ Top.i < Top.prop_count
    /\ current > size
    /\ status' = "fault"
    /\ UNCHANGED <<data, version, current, stack, elements, properties,
                   liveE, liveP, doubleFree, s_message>>

\* after the property loop: return a leaf element, or enter the child loop
EndProperties ==
    /\ UNCHANGED notTok
    /\ status = "running"
    /\ Top.phase = "props"
    /\ ~(Top.i < Top.prop_count)
    /\ IF current >= Top.end_offset THEN ReturnElement(Top.element, current)
       ELSE /\ stack' = [stack EXCEPT ![Len(stack)].phase = "children"]
            /\ UNCHANGED <<data, version, current, elements, properties,
                           liveE, liveP, doubleFree, status, s_message>>

\* after the child loop: skip the sentinel and return the element
EndChildren ==
    /\ UNCHANGED notTok
    /\ status = "running"
    /\ Top.phase = "children"
    /\ ~(current < Top.end_offset - BlockSentinelLength(version))
    /\ IF current + BlockSentinelLength(version) > size THEN Fail(MsgPastEnd)
       ELSE ReturnElement(Top.element, current + BlockSentinelLength(version))

\* Scene::destroy / ~Scene on the tokenized tree
Destroy ==
    /\ UNCHANGED notTok
    /\ status = "ok"
    /\ LET de == DeletedElements(elements, RootElement)
           dp == DeletedProperties(elements, properties, RootElement)
       IN  /\ liveE' = liveE \ de
           /\ liveP' = liveP \ dp
           /\ doubleFree' = (doubleFree \/ ~(de \subseteq liveE) \/ ~(dp \subseteq liveP))
    /\ status' = "destroyed"
    /\ UNCHANGED <<data, version, current, stack, elements, properties, s_message>>

-----------------------------------------------------------------------------
(* The text tokenizer.  A cursor is an index into text: cursor i stands at *)
(* text[i], and cursor Len(text) + 1 is cursor->end.                       *)

MsgTextEOF == "Unexpected end of file"
MsgTextTodo == "TODO"

\* isspace, isdigit, isalnum of the C locale
Space == {9, 10, 11, 12, 13, 32}
Digit == 48..57
isTextTokenChar == Digit \cup (65..90) \cup (97..122) \cup {95}

\* while (current < end && *current in S) ++current
SkipIn(t, i, S) ==
    IF i > Len(t) THEN i
    ELSE LET stop == {k \in i..Len(t) : t[k] \notin S}
         IN  IF stop = {} THEN Len(t) + 1
             ELSE CHOOSE k \in stop : \A j \in stop : k <= j

\* while (current < end && *current not in S) ++current
SkipTo(t, i, S) ==
    IF i > Len(t) THEN i
    ELSE LET stop == {k \in i..Len(t) : t[k] \in S}
         IN  IF stop = {} THEN Len(t) + 1
             ELSE CHOOSE k \in stop : \A j \in stop : k <= j

\* if (current < end) ++current
StepOver(t, i) == IF i <= Len(t) THEN i + 1 ELSE i

skipInsignificantWhitespaces(t, i) == SkipIn(t, i, Space \ {10})

skipLine(t, i) == skipInsignificantWhitespaces(t, StepOver(t, SkipTo(t, i, {10})))

RECURSIVE skipComments(_, _)
\* while (current < end && *current == ';') skipLine(cursor)
skipComments(t, i) ==
    IF i <= Len(t) /\ t[i] = 59 THEN skipComments(t, skipLine(t, i)) ELSE i

skipWhitespaces(t, i) == skipComments(t, SkipIn(t, i, Space))

\* the cursor after the token that starts at i
readTextToken(t, i) == SkipIn(t, i, isTextTokenChar)

\* readTextProperty at cursor i <= Len(t): [ok, type, cur]
readTextProperty(t, i) ==
    LET c == t[i]
        prop(ty, cur) == [ok |-> TRUE, type |-> ty, cur |-> cur]
    IN  IF c = 34 THEN prop(TagS, StepOver(t, SkipTo(t, i + 1, {34})))
        ELSE IF c \in Digit \/ c = 45 THEN
            LET b == SkipIn(t, IF c = 45 THEN i + 1 ELSE i, Digit)
            IN  IF b <= Len(t) /\ t[b] = 46 THEN
                    LET d == SkipIn(t, b + 1, Digit)
                        e1 == d + 1
                        e2 == IF e1 <= Len(t) /\ t[e1] = 45 THEN e1 + 1 ELSE e1
                    IN  IF d <= Len(t) /\ t[d] \in {101, 69}
                        THEN prop(TagD, SkipIn(t, e2, Digit))
                        ELSE prop(TagD, d)
                ELSE prop(TagL, b)
        ELSE IF c \in {84, 89} THEN prop(c, i + 1)
        ELSE IF c = 42 THEN
            LET v == skipInsignificantWhitespaces(t, StepOver(t, SkipTo(t, i + 1, {58})))
                e == SkipTo(t, v, {125})
            IN  prop(IF \E k \in v..(e - 1) : t[k] = 46 THEN Tagd ELSE Tagl,
                     StepOver(t, e))
        ELSE [ok |-> FALSE, type |-> 0, cur |-> i]

TextNode(id, props, children) == [id |-> id, props |-> props, children |-> children]

TextErr(m) == [ok |-> FALSE, msg |-> m, cur |-> 0, el |-> TextNode(<<>>, <<>>, <<>>)]

RECURSIVE readTextProperties(_, _)

\* the end of one turn of the property loop: the property p before the
\* properties rest of the later turns
propertiesJoined(p, rest) ==
    IF ~rest.ok THEN rest
    ELSE [ok |-> TRUE, props |-> <<p.type>> \o rest.props, cur |-> rest.cur]

\* one turn of the property loop, from what readTextProperty handed back
propertiesAfter(t, i, p) ==
    IF ~p.ok THEN [ok |-> FALSE, props |-> <<>>, cur |-> i]
    ELSE propertiesJoined(p,
             readTextProperties(t,
                 skipInsignificantWhitespaces(t,
                     IF p.cur <= Len(t) /\ t[p.cur] = 44
                     THEN skipWhitespaces(t, p.cur + 1) ELSE p.cur)))

\* the property loop of readTextElement: [ok, props, cur]
readTextProperties(t, i) ==
    IF i <= Len(t) /\ t[i] # 10 /\ t[i] # 123
    THEN propertiesAfter(t, i, readTextProperty(t, i))
    ELSE [ok |-> TRUE, props |-> <<>>, cur |-> i]

RECURSIVE readTextElement(_, _, _)
RECURSIVE readTextChildren(_, _, _)

\* the end of readTextElement for an element with a block: ch is what the
\* child loop handed back
elementClosed(t, i, idEnd, ps, ch) ==
    IF ~ch.ok THEN TextErr(ch.msg)
    ELSE [ok |-> TRUE, msg |-> "", cur |-> StepOver(t, ch.cur),
          el |-> TextNode(SubSeq(t, i, idEnd - 1), ps.props, ch.els)]

\* readTextElement from the end of its property loop on
elementAfterProperties(t, i, pst, idEnd, ps) ==
    IF ~ps.ok THEN TextErr(MsgTextTodo)
    ELSE IF (IF ps.cur <= Len(t) THEN t[ps.cur] ELSE pst) # 123 THEN
        [ok |-> TRUE, msg |-> "", cur |-> ps.cur,
         el |-> TextNode(SubSeq(t, i, idEnd - 1), ps.props, <<>>)]
    ELSE elementClosed(t, i, idEnd, ps,
             readTextChildren(t, skipWhitespaces(t, ps.cur + 1), pst))

\* readTextElement from the cursor a after the colon on
elementAfterColon(t, i, pst, idEnd, a) ==
    IF a = Len(t) + 1 THEN TextErr(MsgTextEOF)
    ELSE elementAfterProperties(t, i, pst, idEnd, readTextProperties(t, a))

\* readTextElement from the end idEnd of its id on
elementAfterId(t, i, pst, idEnd) ==
    IF idEnd = Len(t) + 1 THEN TextErr(MsgTextEOF)
    ELSE IF t[idEnd] # 58 THEN TextErr(MsgTextEOF)
    ELSE elementAfterColon(t, i, pst, idEnd, skipWhitespaces(t, idEnd + 1))

\* readTextElement at cursor i: [ok, msg, cur, el]; pst is what *cursor->current
\* yields when the cursor is at the end of the buffer
readTextElement(t, i, pst) == elementAfterId(t, i, pst, readTextToken(t, i))

\* the end of one turn of a loop over elements: the element child before
\* the elements rest of the later turns
elementsJoined(child, rest) ==
    IF ~rest.ok THEN rest
    ELSE [ok |-> TRUE, msg |-> "", els |-> <<child.el>> \o rest.els, cur |-> rest.cur]

\* one turn of the child loop, from what readTextElement handed back
childrenAfter(t, i, pst, child) ==
    IF ~child.ok THEN [ok |-> FALSE, msg |-> child.msg, els |-> <<>>, cur |-> i]
    ELSE elementsJoined(child, readTextChildren(t, skipWhitespaces(t, child.cur), pst))

\* the child loop of readTextElement: [ok, msg, els, cur]
readTextChildren(t, i, pst) ==
    IF i <= Len(t) /\ t[i] # 125
    THEN childrenAfter(t, i, pst, readTextElement(t, i, pst))
    ELSE [ok |-> TRUE, msg |-> "", els |-> <<>>, cur |-> i]

RECURSIVE tokenizeTextFrom(_, _, _)

\* one turn of the loop of tokenizeText, from what readTextElement handed
\* back
tokenizeTextAfter(t, i, pst, child) ==
    IF ~child.ok THEN [ok |-> FALSE, msg |-> child.msg, els |-> <<>>, cur |-> i]
    ELSE elementsJoined(child, tokenizeTextFrom(t, child.cur, pst))

\* the loop of tokenizeText from cursor i: [ok, msg, els, cur]
tokenizeTextFrom(t, i, pst) ==
    IF i > Len(t) THEN [ok |-> TRUE, msg |-> "", els |-> <<>>, cur |-> i]
    ELSE IF t[i] \in {59, 13, 10} THEN tokenizeTextFrom(t, skipLine(t, i), pst)
    ELSE tokenizeTextAfter(t, i, pst, readTextElement(t, i, pst))

tokenizeText(t, pst) == tokenizeTextFrom(t, 1, pst)

-----------------------------------------------------------------------------
(* The same logical documents in the text dialect: one element per line,   *)
(* "Id: prop, prop", with a block "{ ... }" for children (and for an       *)
(* element that has neither properties nor children), numbers as printf    *)
(* writes them.                                                            *)

RECURSIVE Dec(_)
Dec(n) == IF n < 10 THEN <<48 + n>> ELSE Dec(n \div 10) \o <<48 + (n % 10)>>

\* "%.15g" of the double whose IEEE-754 bytes are bs
DoubleText(bs) ==
    CASE bs = <<0, 0, 0, 0, 0, 0, 4, 64>> -> <<50, 46, 53>>                          \* 2.5
      [] bs = <<225, 24, 55, 206, 81, 28, 69, 61>> -> <<49, 46, 53, 101, 45, 49, 51>> \* 1.5e-13
      [] bs = <<48, 41, 136, 26, 86, 67, 32, 68>> -> <<49, 46, 53, 101, 43, 50, 48>>  \* 1.5e+20
      [] OTHER -> <<48>>                                                             \* 0

RECURSIVE Joined(_, _)
Joined(ss, sep) ==
    IF ss = <<>> THEN <<>>
    ELSE IF Len(ss) = 1 THEN ss[1]
    ELSE ss[1] \o sep \o Joined(Tail(ss), sep)

\* a property as text; eol is the line ending
TextProp(p, eol) ==
    CASE p.tag = TagS -> <<34>> \o SubSeq(p.payload, 5, Len(p.payload)) \o <<34>>
      [] p.tag = TagR -> <<34>> \o Dec(FromLE(SubSeq(p.payload, 5, Len(p.payload)))) \o <<34>>
      [] p.tag \in {TagY, TagI, TagL} -> Dec(FromLE(p.payload))
      [] p.tag \in {TagF, TagD} -> DoubleText(p.payload)
      [] p.tag = TagC -> <<84>>
      [] p.tag = Tagi ->
           LET count == FromLE(SubSeq(p.payload, 1, 4))
               vals == [k \in 1..count |->
                           Dec(FromLE(SubSeq(p.payload, 9 + 4 * k, 12 + 4 * k)))]
           IN  <<42>> \o Dec(count) \o <<32, 123>> \o eol
               \o <<32, 97, 58, 32>> \o Joined(vals, <<44>>) \o eol \o <<125, 32>>
      [] OTHER -> <<p.tag>>

RECURSIVE TextElem(_, _)
RECURSIVE TextList(_, _)
TextElem(el, eol) ==
    el.id \o <<58, 32>>
    \o Joined([k \in 1..Len(el.props) |-> TextProp(el.props[k], eol)], <<44, 32>>)
    \o (IF el.children # <<>> \/ el.props = <<>>
        THEN <<32, 123>> \o eol \o TextList(el.children, eol) \o <<125>>
        ELSE <<>>)
    \o eol
TextList(els, eol) ==
    IF els = <<>> THEN <<>>
    ELSE IF Head(els) = ZeroOffset THEN TextList(Tail(els), eol)
    ELSE TextElem(Head(els), eol) \o TextList(Tail(els), eol)

\* a comment line, then the elements
TextFile(doc, eol) == <<59, 32, 70, 66, 88>> \o eol \o TextList(doc, eol)

Eols == { <<10>>, <<13, 10>> }

\* what a read just after the buffer may return: a NUL, or an opening brace
PastBytes == {0, 123}

\* float m_scene_frame_rate = -1, in thousandths
NoFrameRate == -1000

\* the scene variables while only the tokenizer is run
LoadIdle ==
    /\ file = <<>>
    /\ pc = "idle"
    /\ result = "none"
    /\ ran = <<>>
    /\ m_connections = <<>>
    /\ m_take_infos = <<>>
    /\ m_root = Null
    /\ m_object_map = <<>>
    /\ m_all_objects = <<>>
    /\ m_meshes = <<>>
    /\ objects = <<>>
    /\ todo = {}
    /\ conIdx = 0
    /\ lastTake = 0
    /\ prepCalls = 0
    /\ m_scene_frame_rate = NoFrameRate

\* the curve variables while no curve is evaluated
CurveIdle ==
    /\ times = <<>>
    /\ values = <<>>
    /\ mLastEvalTime = 0
    /\ mLastEvalValue = 0
    /\ evalLog = <<>>

\* the node variables while no matrix is asked for
CacheIdle ==
    /\ mCacheTime = <<>>
    /\ mLocalCache = <<>>
    /\ mGlobalCache = <<>>
    /\ lastCall = <<>>

EvalIdle == evalNode = <<>> /\ evalCall = <<>>

VisIdle == visNodes = <<>> /\ visCall = <<>>

MatrixIdle == CacheIdle /\ EvalIdle /\ VisIdle

\* tokenizeText has handed back r
TokenizedText(r) ==
    \/ /\ r.ok
       /\ textStatus' = "ok"
       /\ textRoot' = r.els
       /\ UNCHANGED s_message
    \/ /\ ~r.ok
       /\ textStatus' = "error"
       /\ s_message' = r.msg
       /\ UNCHANGED textRoot
    \/ /\ ~r.ok
       /\ r.msg = MsgTextTodo
       /\ textStatus' = "aborted"
       /\ UNCHANGED <<textRoot, s_message>>

\* tokenizeText on the document as text, once tokenize is through with the
\* binary buffer; the assert(false) of readTextProperty ends a debug build
TokenizeText ==
    /\ textStatus = "ready"
    /\ status # "running"
    /\ TokenizedText(tokenizeText(text, past))
    /\ UNCHANGED <<data, version, current, stack, elements, properties,
                   liveE, liveP, doubleFree, status, text, past>>
    /\ UNCHANGED <<loadOnly, takeVars, curveVars, matrixVars>>

\* tokenize up to its loop, on a prefix of an encoded document; a whole
\* document comes with its text form
TokInit ==
    /\ LoadIdle
    /\ CurveIdle
    /\ MatrixIdle
    /\ \E doc \in Docs, d \in Dialects :
         \E n \in 0..Len(File(doc, d[1], d[2], d[3])) :
            /\ data = SubSeq(File(doc, d[1], d[2], d[3]), 1, n)
            /\ version \in (IF n >= HeaderSize THEN {d[1]} ELSE Versions)
            /\ IF n = Len(File(doc, d[1], d[2], d[3]))
               THEN /\ text \in { TextFile(doc, eol) : eol \in Eols }
                    /\ past \in PastBytes
                    /\ textStatus = "ready"
               ELSE /\ text = <<>>
                    /\ past = 0
                    /\ textStatus = "none"
    /\ textRoot = <<>>
    /\ current = HeaderSize
    /\ stack = << Frame(RootElement, 0, 0, "tokenize") >>
    /\ elements = << NewElement(<<>>) >>
    /\ properties = <<>>
    /\ liveE = {RootElement}
    /\ liveP = {}
    /\ doubleFree = FALSE
    /\ status = "running"
    /\ s_message = ""

TokNext ==
    \/ ReadElement
    \/ ReadProperty
    \/ ReadPropertyFault
    \/ EndProperties
    \/ EndChildren
    \/ Destroy
    \/ TokenizeText

TokSpec == TokInit /\ [][TokNext]_vars

-----------------------------------------------------------------------------
(* Properties of the binary tokenizer, checked under TokSpec.              *)

\* C6: while a buffer that holds a complete header is tokenized, the cursor
\* is at or before the end of the buffer and the byte range of every
\* property accepted so far lies inside the buffer.
C6_ReadsBoundsChecked ==
    size >= HeaderSize =>
        /\ current <= size
        /\ \A p \in liveP : properties[p].end <= size

\* C7: once an element tree was destroyed, by the scene or by the tokenizer
\* that abandons it, every element and every property allocated for it has
\* been released, and none of them twice.
C7_TreeReleasedOnce ==
    status \in {"error", "destroyed"} =>
        /\ liveE = {}
        /\ liveP = {}
        /\ ~doubleFree

\* what a property is, whatever the dialect's type letter for it
BinaryKind(t) ==
    CASE t \in {TagS, TagR} -> "string"
      [] t \in {TagY, TagI, TagL, TagF, TagD} -> "number"
      [] t = TagC -> "char"
      [] OTHER -> "array"

TextKind(t) ==
    CASE t = TagS -> "string"
      [] t \in {TagL, TagD} -> "number"
      [] t \in {84, 89} -> "char"
      [] OTHER -> "array"

RECURSIVE PropertyKinds(_, _)
\* the kinds of the property chain that starts at p
PropertyKinds(ps, p) ==
    IF p = Null THEN <<>>
    ELSE <<BinaryKind(ps[p].type)>> \o PropertyKinds(ps, ps[p].next)

RECURSIVE BinaryShape(_, _, _)
\* the shape of the sibling chain that starts at e
BinaryShape(es, ps, e) ==
    IF e = Null THEN <<>>
    ELSE << TextNode(es[e].id, PropertyKinds(ps, es[e].first_property),
                     BinaryShape(es, ps, es[e].child)) >>
         \o BinaryShape(es, ps, es[e].sibling)

RECURSIVE TextShape(_)
\* the shape of a list of elements of the text tokenizer
TextShape(els) ==
    IF els = <<>> THEN <<>>
    ELSE << TextNode(Head(els).id,
                     [k \in 1..Len(Head(els).props) |-> TextKind(Head(els).props[k])],
                     TextShape(Head(els).children)) >>
         \o TextShape(Tail(els))

\* C11: once both tokenizers are through with the same document, each in
\* its dialect, and the binary tokenizer returned a tree, the text tokenizer
\* returned a tree too, with the same element ids in the same child and
\* sibling order and the same properties in the same order.
C11_SameTreeShape ==
    (status = "ok" /\ textStatus \notin {"none", "ready"}) =>
        /\ textStatus = "ok"
        /\ TextShape(textRoot) = BinaryShape(elements, properties, elements[RootElement].child)

\* both tokenizers returned a tree of a document with nested elements
C11_BothTokenized ==
    /\ status = "ok"
    /\ textStatus = "ok"
    /\ \E k \in 1..Len(textRoot) : textRoot[k].children # <<>>

\* C22: once the tokenizer has read an element offset, the offsets are read
\* as 32-bit values and the sentinel is 13 bytes for a header version below
\* 7500, and they are 64-bit values and 25 bytes for a version from 7500 on,
\* whatever the 32-bit version field holds
C22_WidthAndSentinelByVersion ==
    current > HeaderSize =>
        /\ version < Version64 =>
             OffsetWidth(version) = 4 /\ BlockSentinelLength(version) = SentinelShort
        /\ version >= Version64 =>
             OffsetWidth(version) = 8 /\ BlockSentinelLength(version) = SentinelLong

\* readElement is about to read an end offset of zero and return nullptr
ReadsZeroEndOffset ==
    /\ status = "running"
    /\ CallsReadElement
    /\ CanRead(current, OffsetWidth(version))
    /\ FromLE(Bytes(data, current, OffsetWidth(version))) = 0

\* the loop of the list being read calls readElement once more
ListGoesOn == status = "running" /\ CallsReadElement

\* C26: a step in which readElement reads an end offset of zero ends the
\* list being read, at the top level and in a child list: the loop of that
\* list does not call readElement again.
C26_ZeroEndOffsetEndsList ==
    [][ReadsZeroEndOffset /\ ReadElement => ~ListGoesOn']_vars

-----------------------------------------------------------------------------
(* The element tree as parseConnections, parseTakes and parseObjects read  *)
(* it: an element is its id, its property list and its child list; a      *)
(* property is its type tag, its bytes read as a string (s) and its value  *)
(* read by toU64 (n).                                                      *)

El(id, props, children) == [id |-> id, props |-> props, children |-> children]

Str(s) == [type |-> "S", s |-> s, n |-> 0, data |-> <<>>, is_binary |-> TRUE]

Long(n) == [type |-> "L", s |-> "", n |-> n, data |-> <<>>, is_binary |-> TRUE]

\* a binary 'I' property: data is the bytes of its value
IntProp(n) ==
    [type |-> "I", s |-> "", n |-> n, data |-> LE(n, 4), is_binary |-> TRUE]

\* a number of the text dialect: data is the bytes from value.begin on, the
\* digits of the token and then what follows it in the buffer
TextLong(n, rest) ==
    [type |-> "L", s |-> "", n |-> n, data |-> Dec(n) \o rest, is_binary |-> FALSE]

\* an array property of which only the count matters
Arr(count) == [type |-> "d", s |-> "", n |-> count, data |-> <<>>, is_binary |-> TRUE]

\* an uncompressed binary array property of the given type ('l', 'd', 'f'
\* or 'i') with its count and its payload
Array(type, payload) ==
    [type |-> type, s |-> "", n |-> Len(payload), data |-> payload, is_binary |-> TRUE]

\* an array property as readTextProperty returns it for "*n { a: x,y,... }":
\* type 'd' when a '.' occurs in it and 'l' otherwise, count the number of
\* scalars, and the scalars the text between value.begin and value.end holds
TextArray(type, payload) ==
    [type |-> type, s |-> "", n |-> Len(payload), data |-> payload, is_binary |-> FALSE]

\* findChild: the position in el.children of the first child with the given
\* id, or Null
findChild(el, id) ==
    LET hits == { i \in DOMAIN el.children : el.children[i].id = id }
    IN  IF hits = {} THEN Null
        ELSE CHOOSE i \in hits : \A j \in hits : i <= j

\* whether first_property->next->... reaches a k-th property (k from 1)
HasProp(el, k) == k \in DOMAIN el.props

\* isString / isLong of the k-th property of el (false for a null pointer)
isString(el, k) == HasProp(el, k) /\ el.props[k].type = "S"

isLong(el, k) == HasProp(el, k) /\ el.props[k].type = "L"

\* the error strings of load's stages
MsgInvalidConnection == "Invalid connection"
MsgInvalidOO == "Invalid OO connection"
MsgInvalidOP == "Invalid OP connection"
MsgInvalidPP == "Invalid PP connection"
MsgNotSupported == "Not supported"
MsgTakeName == "Invalid name in take"
MsgTakeFilename == "Invalid filename in take"
MsgTakeLocalTime == "Invalid local time in take"
MsgTakeReferenceTime == "Invalid reference time in take"
MsgInvalid == "Invalid"
MsgVerticesMissing == "Vertices missing"
MsgIndicesMissing == "Indices missing"
MsgInvalidNodeAttribute == "Invalid node attribute"
MsgInvalidMesh == "Invalid mesh"
MsgInvalidCluster == "Invalid cluster"
MsgInvalidMaterial == "Invalid material"
MsgInvalidAnimationNode == "Invalid animation node"
MsgInvalidAnimationCurve == "Invalid animation curve"
MsgFailedVertices == "Failed to parse vertices"
MsgFailedIndices == "Failed to parse indices"
MsgInvalidNormals == "Invalid normals"
MsgPostprocessCluster == "Failed to postprocess cluster"
MsgInvalidLimbNode == "Invalid limb node"

-----------------------------------------------------------------------------
(* parseConnections and parseTakes.                                        *)

Connection(type, from, to, srcProperty, property) ==
    [type |-> type, from |-> from, to |-> to,
     srcProperty |-> srcProperty, property |-> property]

\* what a parse stage hands back: its return value, the message it left in
\* Error::s_message, the vector it filled, and whether it ran into assert(false)
Parsed(ok, msg, out, asserts) == [ok |-> ok, msg |-> msg, out |-> out, asserts |-> asserts]

RECURSIVE parseConnectionList(_, _)
\* the loop of parseConnections over the children cs of Connections
parseConnectionList(cs, acc) ==
    IF cs = <<>> THEN Parsed(TRUE, "", acc, FALSE)
    ELSE LET c == Head(cs) IN
         IF ~isString(c, 1) THEN Parsed(FALSE, MsgInvalidConnection, acc, FALSE)
         ELSE IF c.props[1].s = "OO" THEN
              IF ~isLong(c, 2) \/ ~isLong(c, 3)
              THEN Parsed(FALSE, MsgInvalidOO, acc, FALSE)
              ELSE parseConnectionList(Tail(cs), Append(acc,
                       Connection("OO", c.props[2].n, c.props[3].n, "", "")))
         ELSE IF c.props[1].s = "OP" THEN
              IF ~isLong(c, 2) \/ ~isLong(c, 3) \/ ~HasProp(c, 4)
              THEN Parsed(FALSE, MsgInvalidOP, acc, FALSE)
              ELSE parseConnectionList(Tail(cs), Append(acc,
                       Connection("OP", c.props[2].n, c.props[3].n, "", c.props[4].s)))
         ELSE IF c.props[1].s = "PP" THEN
              IF ~isLong(c, 2) \/ ~isString(c, 3) \/ ~HasProp(c, 4) \/ ~HasProp(c, 5)
              THEN Parsed(FALSE, MsgInvalidPP, acc, FALSE)
              ELSE parseConnectionList(Tail(cs), Append(acc,
                       Connection("PP", c.props[2].n, c.props[4].n, c.props[3].s, c.props[5].s)))
         ELSE Parsed(FALSE, MsgNotSupported, acc, TRUE)

parseConnections(root) ==
    IF findChild(root, "Connections") = Null THEN Parsed(TRUE, "", <<>>, FALSE)
    ELSE parseConnectionList(root.children[findChild(root, "Connections")].children, <<>>)

\* the two time stamps of a LocalTime / ReferenceTime child of a take, in
\* FBX ticks, or <<>> when the take has no such child
TakeTimes(take, id) ==
    IF findChild(take, id) = Null THEN <<>>
    ELSE LET e == take.children[findChild(take, id)]
         IN  << e.props[1].n, e.props[2].n >>

RECURSIVE parseTakeList(_, _)
\* the loop of parseTakes over the children ts of Takes
parseTakeList(ts, acc) ==
    IF ts = <<>> THEN Parsed(TRUE, "", acc, FALSE)
    ELSE LET t == Head(ts)
             fn == findChild(t, "FileName")
             lt == findChild(t, "LocalTime")
             rt == findChild(t, "ReferenceTime")
         IN  IF t.id # "Take" THEN parseTakeList(Tail(ts), acc)
             ELSE IF ~isString(t, 1) THEN Parsed(FALSE, MsgTakeName, acc, FALSE)
             ELSE IF fn # Null /\ ~isString(t.children[fn], 1)
                  THEN Parsed(FALSE, MsgTakeFilename, acc, FALSE)
             ELSE IF lt # Null /\ (~isLong(t.children[lt], 1) \/ ~isLong(t.children[lt], 2))
                  THEN Parsed(FALSE, MsgTakeLocalTime, acc, FALSE)
             ELSE IF rt # Null /\ (~isLong(t.children[rt], 1) \/ ~isLong(t.children[rt], 2))
                  THEN Parsed(FALSE, MsgTakeReferenceTime, acc, FALSE)
             ELSE parseTakeList(Tail(ts), Append(acc,
                      [name |-> t.props[1].s,
                       filename |-> IF fn = Null THEN "" ELSE t.children[fn].props[1].s,
                       local_time |-> TakeTimes(t, "LocalTime"),
                       reference_time |-> TakeTimes(t, "ReferenceTime")]))

parseTakes(root) ==
    IF findChild(root, "Takes") = Null THEN Parsed(TRUE, "", <<>>, FALSE)
    ELSE parseTakeList(root.children[findChild(root, "Takes")].children, <<>>)

-----------------------------------------------------------------------------
(* Objects and the factories of parseObjects.                              *)

\* an element pointer that is nullptr (the element of a map entry that
\* operator[] default-constructs)
NoElement == El("", <<>>, <<>>)

NodeTypes == {"ROOT", "MESH", "LIMB_NODE", "NULL_NODE", "CAMERA", "LIGHT"}

\* the value a PropertyInt slot holds until Retrieve assigns it
DefaultLayerID == 0

\* the names of the animatable slots of a Model the inputs connect curve
\* nodes to: Translation, Rotation and Scaling
AnimatableSlots == {"Lcl Translation", "Lcl Rotation", "Lcl Scaling"}

\* whether the property list of an object of the type holds an animatable
\* slot of the name
IsAnimatable(type, name) == type \in NodeTypes /\ name \in AnimatableSlots

\* Object::Object, Model::Model and the constructors of the object classes:
\* name is the second property of the element; chains holds, for each
\* animatable slot, the curve nodes attached to it
NewObject(type, el, id) ==
    [type |-> type, element |-> el, id |-> id,
     is_node |-> (type \in NodeTypes),
     name |-> IF HasProp(el, 1) /\ HasProp(el, 2) THEN el.props[2].s ELSE "",
     node_attribute |-> Null, geometry |-> Null, materials |-> <<>>,
     skin |-> Null, clusters |-> <<>>, link |-> Null,
     textures |-> <<Null, Null>>,
     mLayers |-> <<>>, LayerID |-> DefaultLayerID, curve_nodes |-> <<>>,
     sublayers |-> <<>>, parentLayer |-> Null,
     mLayer |-> Null, mOwner |-> Null, bone_link_property |-> "",
     mNumberOfCurves |-> 0, curves |-> <<>>, mAnimationNodes |-> <<>>,
     chains |-> [slot \in AnimatableSlots |-> <<>>],
     times |-> <<>>, values |-> <<>>, flags |-> <<>>, to_old_vertices |-> <<>>,
     to_old_indices |-> <<>>, to_new_vertices |-> <<>>,
     indices |-> <<>>, weights |-> <<>>, normals |-> <<>>,
     mParent |-> Null, mFirstChild |-> Null, mNext |-> Null, mPrev |-> Null]

\* Root::Root
Root(el) == [NewObject("ROOT", el, 0) EXCEPT !.name = "RootNode"]

\* what a factory hands back: an error and its message, nullptr, the type of
\* the object it constructed, or no answer ("crash")
Made(kind, msg, type) == [kind |-> kind, msg |-> msg, type |-> type]

\* whether el has a child with the given id that has a first property
HasData(el, id) == findChild(el, id) # Null /\ HasProp(el.children[findChild(el, id)], 1)

parseMesh(el) ==
    IF ~HasProp(el, 3) \/ el.props[3].s # "Mesh" THEN Made("error", MsgInvalidMesh, "")
    ELSE Made("object", "", "MESH")

parseLimbNode(el) ==
    IF ~HasProp(el, 3) \/ el.props[3].s # "LimbNode" THEN Made("error", MsgInvalidLimbNode, "")
    ELSE Made("object", "", "LIMB_NODE")

\* Property::getCount of a binary array property
getCount(p) == p.n

\* elem_size in parseArrayRaw, 0 where it returns false; sizeof(T) of the
\* buffer types i64 ("l"), double ("d"), float ("f") and int ("i")
ElemSize(type) ==
    IF type \in {"l", "d"} THEN 8 ELSE IF type \in {"f", "i"} THEN 4 ELSE 0

RECURSIVE Log2(_)
\* the exponent of the highest bit of n > 0
Log2(n) == IF n < 2 THEN 0 ELSE 1 + Log2(n \div 2)

\* the bits of the IEEE single that holds the natural number n
FloatBits(n) ==
    IF n = 0 THEN 0
    ELSE (127 + Log2(n)) * 8388608 + (n - 2 ^ Log2(n)) * 2 ^ (23 - Log2(n))

\* what memcpy leaves in an element of type T from an element of the array
\* type "from" of the same size
Reinterpret(from, T, v) ==
    CASE from = T -> v
      [] from = "f" /\ T = "i" -> FloatBits(v)

\* Property::getValues(out, max_size) on a binary array of encoding 0, into
\* a zeroed buffer of n elements of type T: whether it returns true, and
\* the buffer it leaves (the inputs hold no array that is copied into
\* elements of another size)
getValues(p, T, n) ==
    LET len == Len(p.data) * ElemSize(p.type)
    IN  IF ElemSize(p.type) = 0 \/ len > n * ElemSize(T)
        THEN [ok |-> FALSE, out |-> [i \in 1..n |-> 0]]
        ELSE [ok |-> TRUE,
              out |-> [i \in 1..n |-> IF i <= Len(p.data)
                                         THEN Reinterpret(p.type, T, p.data[i])
                                         ELSE 0]]

\* parseTextArray<T> for a scalar T: count times fromString<T>, which
\* converts the scalar at iter and moves iter behind the next ','
parseTextArray(p) == [i \in 1..p.n |-> p.data[i]]

\* fromString(str, end, val, count) on the scalars from position iter on:
\* component c is converted while the text lasts; the first component of a
\* call at the end of the text is atof of the '}' there, 0; the components
\* behind the end are not assigned and hold what the memory held (garbage)
fromString(scalars, iter, count, garbage) ==
    [c \in 1..count |-> IF iter + c - 1 <= Len(scalars) THEN scalars[iter + c - 1]
                         ELSE IF c = 1 THEN 0
                         ELSE garbage]

\* parseTextArray<T> for a vector T of K doubles: property.count times
\* fromString<T> and push_back, each call K scalars further on
parseTextVecArray(p, K, garbage) ==
    [i \in 1..p.n |-> fromString(p.data, K * (i - 1) + 1, K, garbage)]

\* parseBinaryArray on a binary array property, into a vector of elements
\* of elem_count scalars of type T each (the inputs hold no array whose
\* elements are larger than those of the vector)
parseBinaryArray(p, T, elem_count) ==
    IF ~p.is_binary THEN [ok |-> TRUE, out |-> parseTextArray(p)]
    ELSE IF p.type \notin {"d", "f", "i"} THEN [ok |-> FALSE, out |-> <<>>]
    ELSE IF getCount(p) = 0 THEN [ok |-> TRUE, out |-> <<>>]
    ELSE getValues(p, T, (getCount(p) \div elem_count) * elem_count)

\* the elements of K scalars each that a vector filled by parseArrayRaw holds
Grouped(flat, K) ==
    [j \in 1..(Len(flat) \div K) |-> SubSeq(flat, K * (j - 1) + 1, K * j)]

\* parseDoubleVecData into a vector of elements of K doubles (the inputs
\* hold binary arrays of doubles and of floats only)
parseDoubleVecData(p, K, garbage) ==
    IF ~p.is_binary THEN [ok |-> TRUE, out |-> parseTextVecArray(p, K, garbage)]
    ELSE IF p.type = "d"
    THEN [ok |-> parseBinaryArray(p, "d", K).ok,
          out |-> Grouped(parseBinaryArray(p, "d", K).out, K)]
    ELSE [ok |-> parseBinaryArray(p, "f", 1).ok,
          out |-> Grouped(parseBinaryArray(p, "f", 1).out, K)]

\* the closure getIdx of triangulate
getIdx(old_indices, i) ==
    IF old_indices[i] < 0 THEN -old_indices[i] - 1 ELSE old_indices[i]

\* the loop of GeometryImpl::triangulate with the fan of earlier and later
\* corners swapped: (v_{i-1}, v0, v_i)
RECURSIVE triangulateSwapped(_, _, _, _, _)
triangulateSwapped(old_indices, i, in_polygon_idx, indices, to_old) ==
    IF i > Len(old_indices) THEN [indices |-> indices, to_old |-> to_old]
    ELSE triangulateSwapped(old_indices, i + 1,
             IF old_indices[i] < 0 THEN 0 ELSE in_polygon_idx + 1,
             IF in_polygon_idx <= 2
             THEN Append(indices, getIdx(old_indices, i))
             ELSE indices \o <<old_indices[i - 1], old_indices[i - in_polygon_idx],
                                getIdx(old_indices, i)>>,
             IF in_polygon_idx <= 2
             THEN Append(to_old, i - 1)
             ELSE to_old \o <<i - 2, i - 1 - in_polygon_idx, i - 1>>)

RECURSIVE triangulateFrom(_, _, _, _, _)
\* the loop of GeometryImpl::triangulate from position i on, with the
\* indices and the positions (to_old) pushed so far; positions count from 1
\* in old_indices and from 0, as in the source, in to_old
triangulateFrom(old_indices, i, in_polygon_idx, indices, to_old) ==
    IF i > Len(old_indices) THEN [indices |-> indices, to_old |-> to_old]
    ELSE triangulateFrom(old_indices, i + 1,
             IF old_indices[i] < 0 THEN 0 ELSE in_polygon_idx + 1,
             IF in_polygon_idx <= 2
             THEN Append(indices, getIdx(old_indices, i))
             ELSE indices \o <<old_indices[i - in_polygon_idx], old_indices[i - 1],
                                getIdx(old_indices, i)>>,
             IF in_polygon_idx <= 2
             THEN Append(to_old, i - 1)
             ELSE to_old \o <<i - 1 - in_polygon_idx, i - 2, i - 1>>)

\* GeometryImpl::triangulate: the indices and the positions it pushes for
\* old_indices
triangulate(old_indices) == triangulateFrom(old_indices, 1, 0, <<>>, <<>>)

\* add(vtx, index) on the chain of a NewVertex: the chain of a vertex whose
\* index is -1 is <<>>, and a new slot goes to the end of the chain
add(vtx, index) == Append(vtx, index)

RECURSIVE toNewFrom(_, _, _)
\* the loop of parseGeometry that fills geom->to_new_vertices, from slot i
\* on (slots count from 0 in the chains); the inputs hold no polygon index
\* beyond the vertices
toNewFrom(to_old_vertices, i, to_new_vertices) ==
    IF i > Len(to_old_vertices) THEN to_new_vertices
    ELSE toNewFrom(to_old_vertices, i + 1,
             [to_new_vertices EXCEPT ![to_old_vertices[i] + 1] = add(@, i - 1)])

\* what parseGeometry may get from memory it does not own or has not
\* written: a fault on a read outside a vector, or the value the scalars
\* there hold
GeometryReads == { [fault |-> f, value |-> v] : f \in BOOLEAN, v \in {0, 7} }

\* T() of a vector of K doubles
ZeroVec(K) == [c \in 1..K |-> 0]

\* the first property of the child of el with the given id, as a string
ChildString(el, id) ==
    IF HasData(el, id) THEN el.children[findChild(el, id)].props[1].s ELSE ""

\* the mapping parseVertexData finds for a MappingInformationType, "" for
\* one it refuses
vertexDataMapping(name) ==
    CASE name = "ByPolygonVertex" -> "BY_POLYGON_VERTEX"
      [] name = "ByPolygon" -> "BY_POLYGON"
      [] name \in {"ByVertice", "ByVertex"} -> "BY_VERTEX"
      [] OTHER -> ""

\* the returns of parseVertexData once mapping, the indices and the data
\* have been read
vertexDataRead(el, mapping, out_indices, out) ==
    IF \/ HasData(el, "MappingInformationType") /\ mapping = ""
       \/ HasData(el, "ReferenceInformationType") /\ ~out_indices.ok
       \/ /\ HasData(el, "ReferenceInformationType")
          /\ ChildString(el, "ReferenceInformationType") \notin {"IndexToDirect", "Direct"}
       \/ ~out.ok
    THEN [ok |-> FALSE, mapping |-> mapping, out |-> <<>>, out_indices |-> <<>>]
    ELSE [ok |-> TRUE, mapping |-> mapping, out |-> out.out, out_indices |-> out_indices.out]

\* parseVertexData on a layer element: whether it returns true, the mapping
\* (every layer of the inputs has a MappingInformationType), the data as
\* elements of K doubles and the indices
parseVertexData(el, name, index_name, K, read) ==
    IF ~HasData(el, name)
    THEN [ok |-> FALSE, mapping |-> "", out |-> <<>>, out_indices |-> <<>>]
    ELSE vertexDataRead(el,
             vertexDataMapping(ChildString(el, "MappingInformationType")),
             IF /\ ChildString(el, "ReferenceInformationType") = "IndexToDirect"
                /\ HasData(el, index_name)
             THEN parseBinaryArray(el.children[findChild(el, index_name)].props[1], "i", 1)
             ELSE [ok |-> TRUE, out |-> <<>>],
             parseDoubleVecData(el.children[findChild(el, name)].props[1], K, read.value))

\* splat on elements of K doubles: data[indices[i]] is read for every
\* indices[i] below data_size, from outside data when indices[i] is negative
splat(mapping, values_in, indices, original_indices, K, read) ==
    IF mapping = "BY_POLYGON_VERTEX"
    THEN IF indices = <<>> THEN values_in
         ELSE [i \in DOMAIN indices |->
                 IF indices[i] < Len(values_in)
                 THEN IF indices[i] >= 0 THEN values_in[indices[i] + 1]
                      ELSE [c \in 1..K |-> read.value]
                 ELSE ZeroVec(K)]
    ELSE [i \in DOMAIN original_indices |->
            IF getIdx(original_indices, i) < Len(values_in)
            THEN values_in[getIdx(original_indices, i) + 1]
            ELSE ZeroVec(K)]

\* remap on elements of K doubles
remap(out, map, K) ==
    IF out = <<>> THEN out
    ELSE [i \in DOMAIN map |-> IF map[i] < Len(out) THEN out[map[i] + 1] ELSE ZeroVec(K)]

\* geom->normals from what parseVertexData handed back: kind is "error"
\* when it failed, "crash" for assert(false) of splat on another mapping or
\* a fault of a read outside data, else "ok"
normalsFrom(tmp, original_indices, to_old_indices, read) ==
    IF ~tmp.ok THEN [kind |-> "error", out |-> <<>>]
    ELSE IF tmp.out = <<>> THEN [kind |-> "ok", out |-> <<>>]
    ELSE IF tmp.mapping \notin {"BY_POLYGON_VERTEX", "BY_VERTEX"}
    THEN [kind |-> "crash", out |-> <<>>]
    ELSE IF /\ read.fault
            /\ tmp.mapping = "BY_POLYGON_VERTEX"
            /\ \E i \in DOMAIN tmp.out_indices : tmp.out_indices[i] < 0
    THEN [kind |-> "crash", out |-> <<>>]
    ELSE [kind |-> "ok",
          out |-> remap(splat(tmp.mapping, tmp.out, tmp.out_indices,
                              original_indices, 3, read),
                        to_old_indices, 3)]

\* the LayerElementNormal block of parseGeometry; kind is "none" without
\* the layer
layerNormals(el, original_indices, to_old_indices, read) ==
    IF findChild(el, "LayerElementNormal") = Null THEN [kind |-> "none", out |-> <<>>]
    ELSE normalsFrom(parseVertexData(el.children[findChild(el, "LayerElementNormal")],
                                     "Normals", "NormalsIndex", 3, read),
                     original_indices, to_old_indices, read)

\* parseGeometry after triangulate: geom->to_old_vertices (vertices has one
\* entry for each of its entries), the local to_old_indices the layer
\* elements are remapped with, geom->to_new_vertices and geom->normals
triangulated(el, vertices, original_indices, tri, read) ==
    [vertices |-> vertices, original_indices |-> original_indices,
     to_old_vertices |-> tri.indices,
     to_old_indices |-> tri.to_old,
     to_new_vertices |-> toNewFrom(tri.indices, 1, [v \in 1..Len(vertices.out) |-> <<>>]),
     normals |-> layerNormals(el, original_indices.out, tri.to_old, read)]

\* the arrays of parseGeometry on element el once Vertices and
\* PolygonVertexIndex are decoded
decoded(el, vertices, original_indices, read) ==
    triangulated(el, vertices, original_indices, triangulate(original_indices.out), read)

\* the body of parseGeometry on element el: the elements of Vertices, the
\* original indices and what is made of them
geometryArrays(el, read) ==
    decoded(el,
            parseDoubleVecData(el.children[findChild(el, "Vertices")].props[1], 3, read.value),
            parseBinaryArray(el.children[findChild(el, "PolygonVertexIndex")].props[1], "i", 1),
            read)

\* what parseGeometry returns for the arrays it has decoded
geometryMade(arrays) ==
    IF ~arrays.vertices.ok THEN Made("error", MsgFailedVertices, "")
    ELSE IF ~arrays.original_indices.ok THEN Made("error", MsgFailedIndices, "")
    ELSE IF arrays.normals.kind = "error" THEN Made("error", MsgInvalidNormals, "")
    ELSE IF arrays.normals.kind = "crash" THEN Made("crash", "", "")
    ELSE Made("object", "", "GEOMETRY")

parseGeometry(el, read) ==
    IF ~HasData(el, "Vertices") THEN Made("error", MsgVerticesMissing, "")
    ELSE IF ~HasData(el, "PolygonVertexIndex") THEN Made("error", MsgIndicesMissing, "")
    ELSE geometryMade(geometryArrays(el, read))

\* the test of the always true kind in place of the one on the key counts
keysMatchAlways(t, v) == TRUE

\* curve->times.size() != curve->values.size() does not hold
keysMatch(t, v) == Len(t) = Len(v)

\* the body of parseAnimationCurve on element el: kind is "object", "error"
\* or "crash" (a read through a null values pointer); ub says whether it
\* takes the address of element 0 of an empty vector
curveArrays(el) ==
    LET KeyTime == IF findChild(el, "KeyTime") = Null THEN NoElement
                 ELSE el.children[findChild(el, "KeyTime")]
        KeyValueFloat == IF findChild(el, "KeyValueFloat") = Null THEN NoElement
                  ELSE el.children[findChild(el, "KeyValueFloat")]
        hasTimes == HasData(el, "KeyTime")
        hasValues == HasData(el, "KeyValueFloat")
        hasFlags == HasData(el, "KeyAttrFlags")
        t == IF hasTimes THEN getValues(KeyTime.props[1], "l", getCount(KeyTime.props[1]))
             ELSE [ok |-> TRUE, out |-> <<>>]
        v == IF hasValues THEN getValues(KeyValueFloat.props[1], "f", getCount(KeyValueFloat.props[1]))
             ELSE [ok |-> TRUE, out |-> <<>>]
        f == IF ~hasFlags THEN [ok |-> TRUE, out |-> <<>>]
             ELSE IF Len(v.out) = getCount(KeyValueFloat.props[1])
             THEN getValues(KeyValueFloat.props[1], "i", getCount(KeyValueFloat.props[1]))
             ELSE IF 1 = getCount(KeyValueFloat.props[1])
             THEN LET value == getValues(KeyValueFloat.props[1], "i", 1)
                  IN  [ok |-> value.ok, out |-> [i \in 1..Len(v.out) |-> value.out[1]]]
             ELSE [ok |-> FALSE, out |-> <<>>]
        ub == \/ hasTimes /\ getCount(KeyTime.props[1]) = 0
              \/ t.ok /\ hasValues /\ getCount(KeyValueFloat.props[1]) = 0
        Out(kind, ts, vs, fs) ==
            [kind |-> kind, ub |-> ub, times |-> ts, values |-> vs, flags |-> fs]
    IN  IF ~t.ok THEN Out("error", <<>>, <<>>, <<>>)
        ELSE IF ~v.ok THEN Out("error", <<>>, <<>>, <<>>)
        ELSE IF hasFlags /\ ~hasValues THEN Out("crash", <<>>, <<>>, <<>>)
        ELSE IF ~f.ok THEN Out("error", <<>>, <<>>, <<>>)
        ELSE IF ~keysMatch(t.out, v.out) THEN Out("error", <<>>, <<>>, <<>>)
        ELSE Out("object", t.out, v.out, f.out)

\* parseAnimationCurve, as far as the factory loop goes
parseAnimationCurve(el) ==
    IF curveArrays(el).kind = "error" THEN Made("error", MsgInvalidAnimationCurve, "")
    ELSE IF curveArrays(el).kind = "crash" THEN Made("crash", "", "")
    ELSE Made("object", "", "ANIMATION_CURVE")

\* the dispatch of the factory loop on the element id and on getProperty(2);
\* the inputs hold no element of the constraint or shader classes
Factory(el, read) ==
    IF el.id = "Geometry" THEN
        IF el.props[Len(el.props)].s = "Mesh" THEN parseGeometry(el, read)
        ELSE Made("null", "", "")
    ELSE IF el.id = "Material" THEN Made("object", "", "MATERIAL")
    ELSE IF el.id = "Deformer" THEN
        IF HasProp(el, 3) /\ el.props[3].s = "Cluster" THEN Made("object", "", "CLUSTER")
        ELSE IF HasProp(el, 3) /\ el.props[3].s = "Skin" THEN Made("object", "", "SKIN")
        ELSE Made("null", "", "")
    ELSE IF el.id = "NodeAttribute" THEN Made("object", "", "NODE_ATTRIBUTE")
    ELSE IF el.id = "Model" THEN
        IF ~HasProp(el, 3) THEN Made("null", "", "")
        ELSE IF el.props[3].s = "Mesh" THEN parseMesh(el)
        ELSE IF el.props[3].s = "LimbNode" THEN parseLimbNode(el)
        ELSE IF el.props[3].s \in {"Null", "Root"} THEN Made("object", "", "NULL_NODE")
        ELSE IF el.props[3].s = "Camera" THEN Made("object", "", "CAMERA")
        ELSE IF el.props[3].s = "Light" THEN Made("object", "", "LIGHT")
        ELSE Made("null", "", "")
    ELSE IF el.id = "Texture" THEN Made("object", "", "TEXTURE")
    ELSE IF el.id = "AnimationStack" THEN Made("object", "", "ANIMATION_STACK")
    ELSE IF el.id = "AnimationLayer" THEN Made("object", "", "ANIMATION_LAYER")
    ELSE IF el.id = "AnimationCurve" THEN parseAnimationCurve(el)
    ELSE IF el.id = "AnimationCurveNode" THEN Made("object", "", "ANIMATION_CURVE_NODE")
    ELSE Made("null", "", "")

\* m_object_map[id] = v
MapPut(map, id, v) == (id :> v) @@ map

\* m_object_map[id] as operator[] leaves the map: a missing key is inserted
\* with a default-constructed pair
MapTouch(map, id) ==
    IF id \in DOMAIN map THEN map
    ELSE MapPut(map, id, [element |-> NoElement, object |-> Null])

RECURSIVE collectObjects(_, _)
\* the first loop of parseObjects over the children os of Objects: the map
\* it leaves, and whether every child had a long first property
collectObjects(os, map) ==
    IF os = <<>> THEN [ok |-> TRUE, map |-> map]
    ELSE IF ~isLong(Head(os), 1) THEN [ok |-> FALSE, map |-> map]
    ELSE collectObjects(Tail(os),
             MapPut(map, Head(os).props[1].n, [element |-> Head(os), object |-> Null]))

-----------------------------------------------------------------------------
(* Connection resolution, cluster postprocess and the node hierarchy.      *)

\* what resolving one connection leaves: the objects, and the message of
\* the invariant it found broken ("" when it found none)
Resolved(objs, msg) == [objs |-> objs, msg |-> msg]

\* PropertyAnimatable::AttachAnimationNode: the chain of a slot, extended
\* by the node
AttachAnimationNode(chain, node) == Append(chain, node)

\* the first switch with a node attribute that replaces the one bound before
resolveChildReplace(objs, parent, child, con) ==
    IF objs[child].type = "NODE_ATTRIBUTE"
    THEN Resolved([objs EXCEPT ![parent].node_attribute = child], "")
    ELSE Resolved(objs, "")

\* the first switch of the resolution loop, on the type of the child
resolveChild(objs, parent, child, con) ==
    IF objs[child].type = "NODE_ATTRIBUTE" THEN
        IF objs[parent].node_attribute # Null THEN Resolved(objs, MsgInvalidNodeAttribute)
        ELSE Resolved([objs EXCEPT ![parent].node_attribute = child], "")
    ELSE IF objs[child].type = "ANIMATION_CURVE_NODE" THEN
        LET owned == IF objs[parent].is_node
                     THEN [objs EXCEPT ![child].mOwner = parent,
                                       ![child].bone_link_property = con.property,
                                       ![parent].mAnimationNodes = Append(@, child)]
                     ELSE objs
        IN  IF IsAnimatable(objs[parent].type, con.property)
            THEN Resolved([owned EXCEPT ![parent].chains[con.property] =
                                            AttachAnimationNode(@, child)], "")
            ELSE Resolved(owned, "")
    ELSE Resolved(objs, "")

\* Texture::TextureType of the property a texture is connected to (1 for
\* DIFFUSE, 2 for NORMAL), Null for COUNT
TextureSlot(property) ==
    IF property = "NormalMap" THEN 2
    ELSE IF property = "DiffuseColor" THEN 1
    ELSE Null

\* the second switch of the resolution loop, on the type of the parent
resolveParent(objs, parent, child, con) ==
    LET pt == objs[parent].type
        ct == objs[child].type
        slot == TextureSlot(con.property)
    IN  IF pt = "MESH" /\ ct = "GEOMETRY" THEN
            IF objs[parent].geometry # Null THEN Resolved(objs, MsgInvalidMesh)
            ELSE Resolved([objs EXCEPT ![parent].geometry = child], "")
        ELSE IF pt = "MESH" /\ ct = "MATERIAL" THEN
            Resolved([objs EXCEPT ![parent].materials = Append(@, child)], "")
        ELSE IF pt = "SKIN" /\ ct = "CLUSTER" THEN
            LET pushed == [objs EXCEPT ![parent].clusters = Append(@, child)]
            IN  IF objs[child].skin # Null THEN Resolved(pushed, MsgInvalidCluster)
                ELSE Resolved([pushed EXCEPT ![child].skin = parent], "")
        ELSE IF pt = "MATERIAL" /\ ct = "TEXTURE" THEN
            IF slot = Null THEN Resolved(objs, "")
            ELSE IF objs[parent].textures[slot] # Null THEN Resolved(objs, MsgInvalidMaterial)
            ELSE Resolved([objs EXCEPT ![parent].textures[slot] = child], "")
        ELSE IF pt = "GEOMETRY" /\ ct = "SKIN" THEN
            Resolved([objs EXCEPT ![parent].skin = child], "")
        ELSE IF pt = "CLUSTER" /\ ct \in {"LIMB_NODE", "MESH", "NULL_NODE"} THEN
            IF objs[parent].link # Null THEN Resolved(objs, MsgInvalidCluster)
            ELSE Resolved([objs EXCEPT ![parent].link = child], "")
        ELSE IF pt = "ANIMATION_STACK" /\ ct = "ANIMATION_LAYER" THEN
            Resolved([objs EXCEPT ![parent].mLayers = Append(@, child)], "")
        ELSE IF pt = "ANIMATION_LAYER" /\ ct = "ANIMATION_CURVE_NODE" THEN
            Resolved([objs EXCEPT ![child].mLayer = parent,
                                  ![parent].curve_nodes = Append(@, child)], "")
        ELSE IF pt = "ANIMATION_LAYER" /\ ct = "ANIMATION_LAYER" THEN
            Resolved([[objs EXCEPT ![child].parentLayer = parent]
                         EXCEPT ![parent].sublayers = Append(@, child)], "")
        ELSE IF pt = "ANIMATION_CURVE_NODE" /\ ct = "ANIMATION_CURVE" THEN
            \* AttachCurve
            IF objs[parent].mNumberOfCurves < 3
            THEN Resolved([objs EXCEPT ![parent].curves = Append(@, child),
                                       ![parent].mNumberOfCurves = @ + 1], "")
            ELSE Resolved(objs, MsgInvalidAnimationNode)
        ELSE Resolved(objs, "")

\* one iteration of the resolution loop for parent and child both non-null
resolveConnection(objs, parent, child, con) ==
    LET r == resolveChild(objs, parent, child, con)
    IN  IF r.msg # "" THEN r ELSE resolveParent(r.objs, parent, child, con)

RECURSIVE firstLink(_, _, _, _, _)
\* the loop of Object::resolveObjectLinkReverse over the connections cs
firstLink(cs, map, objs, id, type) ==
    IF cs = <<>> THEN Null
    ELSE IF /\ Head(cs).from = id
            /\ Head(cs).to # 0
            /\ map[Head(cs).to].object # Null
            /\ objs[map[Head(cs).to].object].type = type
         THEN map[Head(cs).to].object
         ELSE firstLink(Tail(cs), map, objs, id, type)

resolveObjectLinkReverse(cs, map, objs, o, type) ==
    firstLink(cs, map, objs,
              IF HasProp(objs[o].element, 1) THEN objs[o].element.props[1].n ELSE 0,
              type)

\* the number of entries of the array child of el with the given id
ArrayCount(el, id) == IF HasData(el, id) THEN el.children[findChild(el, id)].props[1].n ELSE 0

\* what the read of geom->to_new_vertices[old_idx] may give for an old_idx
\* outside the vector: a fault, a NewVertex with index -1, or one with
\* another index and a null next
OutOfRangeReads ==
    { [fault |-> TRUE, chain |-> <<>>],
      [fault |-> FALSE, chain |-> <<>>],
      [fault |-> FALSE, chain |-> <<0>>],
      [fault |-> FALSE, chain |-> <<1000>>] }

\* the array the cluster reads from the child of el with the given id: empty
\* when the child or its property is absent
clusterArray(el, id, T) ==
    IF HasData(el, id) THEN parseBinaryArray(el.children[findChild(el, id)].props[1], T, 1)
    ELSE [ok |-> TRUE, out |-> <<>>]

RECURSIVE postprocessFrom(_, _, _, _, _, _)
\* the loop of ClusterImpl::postprocess from pair i on, with the indices
\* and weights pushed so far
postprocessFrom(to_new_vertices, old_indices, old_weights, i, read, acc) ==
    IF i > Len(old_indices) THEN acc
    ELSE LET n == IF old_indices[i] + 1 \in DOMAIN to_new_vertices
                  THEN to_new_vertices[old_indices[i] + 1]
                  ELSE read.chain
         IN  postprocessFrom(to_new_vertices, old_indices, old_weights, i + 1, read,
                 [indices |-> acc.indices \o n,
                  weights |-> acc.weights \o [k \in DOMAIN n |-> old_weights[i]]])

\* ClusterImpl::postprocess: ret is "crash" when skin is null (assert(skin),
\* then a member call through the null pointer) or a read outside
\* to_new_vertices faults, else what it returns; indices and weights are
\* the vectors it leaves
postprocess(cs, map, objs, o, read) ==
    LET geom == resolveObjectLinkReverse(cs, map, objs, objs[o].skin, "GEOMETRY")
        old_indices == clusterArray(objs[o].element, "Indexes", "i")
        old_weights == clusterArray(objs[o].element, "Weights", "d")
        none == [indices |-> <<>>, weights |-> <<>>]
        Ret(r, a) == [ret |-> r, indices |-> a.indices, weights |-> a.weights]
    IN  IF objs[o].skin = Null THEN Ret("crash", none)
        ELSE IF geom = Null THEN Ret("false", none)
        ELSE IF ~old_indices.ok \/ ~old_weights.ok THEN Ret("false", none)
        ELSE IF Len(old_indices.out) # Len(old_weights.out) THEN Ret("false", none)
        ELSE IF /\ read.fault
                /\ \E i \in DOMAIN old_indices.out :
                      old_indices.out[i] + 1 \notin DOMAIN objs[geom].to_new_vertices
        THEN Ret("crash", none)
        ELSE Ret("true", postprocessFrom(objs[geom].to_new_vertices, old_indices.out,
                                         old_weights.out, 1, read, none))

RECURSIVE getParents(_, _, _, _)
\* the objects Object::getParents(idx) returns for idx = 0, 1, ... in turn
getParents(cs, map, objs, o) ==
    IF cs = <<>> THEN <<>>
    ELSE LET c == Head(cs)
             rest == getParents(Tail(cs), map, objs, o)
         IN  IF /\ c.type = "OO"
                /\ c.from = objs[o].id
                /\ map[c.to].object # Null
                /\ objs[map[c.to].object].is_node
             THEN <<map[c.to].object>> \o rest
             ELSE rest

RECURSIVE lastChild(_, _, _)
\* the walk of Model::AddChild along mNext from p; Null when it has not
\* reached the end after fuel steps
lastChild(objs, p, fuel) ==
    IF objs[p].mNext = Null THEN p
    ELSE IF fuel = 0 THEN Null
    ELSE lastChild(objs, objs[p].mNext, fuel - 1)

\* Model::AddChild; <<>> when its walk does not end
AddChild(objs, this, pChild) ==
    LET o1 == [objs EXCEPT ![pChild].mParent = this]
    IN  IF o1[this].mFirstChild = Null
        THEN [o1 EXCEPT ![this].mFirstChild = pChild,
                        ![pChild].mNext = Null,
                        ![pChild].mPrev = Null]
        ELSE LET pLast == lastChild(o1, o1[this].mFirstChild, Len(o1))
                 o2 == [o1 EXCEPT ![pLast].mNext = pChild]
                 o3 == [o2 EXCEPT ![pChild].mPrev = pLast]
             IN  IF pLast = Null THEN <<>>
                 ELSE [o3 EXCEPT ![pChild].mNext = Null]

RECURSIVE addToParents(_, _, _)
\* the hierarchy loop of parseObjects for one node: AddChild on every parent
addToParents(objs, ps, o) ==
    IF ps = <<>> \/ objs = <<>> THEN objs
    ELSE addToParents(AddChild(objs, Head(ps), o), Tail(ps), o)

-----------------------------------------------------------------------------
(* The inputs of load: the element tree of a file, and how the two         *)
(* tokenizers fare on its bytes (TokSpec is the binary one).               *)

MaxId == 1            \* object ids of the generated scenes are 0..MaxId
MaxObjects == 1       \* most objects of a generated scene
MaxConnections == 1   \* most connections of a generated scene
MaxPrepCalls == 2     \* most PrepTakeConnections calls on a loaded scene
MaxCurveKeys == 2     \* most keys of a curve element of a scene
MaxIndices == 4       \* most entries of the PolygonVertexIndex of a scene

\* EInterpolationType
eInterpolationLinear == 4

eInterpolationCubic == 8

ObjModel(k, cls) == El("Model", <<Long(k), Str("Model::m"), Str(cls)>>, <<>>)

\* a geometry of three vertices and one triangle
ObjGeometry(k) ==
    El("Geometry", <<Long(k), Str("Geometry::g"), Str("Mesh")>>,
       << El("Vertices", <<Array("d", [i \in 1..9 |-> 0])>>, <<>>),
          El("PolygonVertexIndex", <<Array("i", <<0, 1, -3>>)>>, <<>>) >>)

ObjGeometryNoVertices(k) ==
    El("Geometry", <<Long(k), Str("Geometry::g"), Str("Mesh")>>,
       << El("PolygonVertexIndex", <<Arr(3)>>, <<>>) >>)

ObjGeometryNoIndices(k) ==
    El("Geometry", <<Long(k), Str("Geometry::g"), Str("Mesh")>>,
       << El("Vertices", <<Arr(3)>>, <<>>) >>)

ObjDeformer(k, cls, children) ==
    El("Deformer", <<Long(k), Str("Deformer::d"), Str(cls)>>, children)

ObjNodeAttribute(k) ==
    El("NodeAttribute", <<Long(k), Str("NodeAttribute::a"), Str("LimbNode")>>, <<>>)

ObjMaterial(k) == El("Material", <<Long(k), Str("Material::x"), Str("")>>, <<>>)

ObjTexture(k) == El("Texture", <<Long(k), Str("Texture::t"), Str("")>>, <<>>)

ObjAnimationStack(k) ==
    El("AnimationStack", <<Long(k), Str("AnimStack::s"), Str("")>>, <<>>)

\* an animation layer with the given properties in its Properties70
ObjAnimationLayer(k, ps) ==
    El("AnimationLayer", <<Long(k), Str("AnimLayer::l"), Str("")>>,
       IF ps = <<>> THEN <<>> ELSE << El("Properties70", <<>>, ps) >>)

\* P: "mLayerID", "int", "Integer", "", id
PLayerID(id) ==
    El("P", <<Str("mLayerID"), Str("int"), Str("Integer"), Str(""), Long(id)>>, <<>>)

ObjAnimationCurveNode(k) ==
    El("AnimationCurveNode", <<Long(k), Str("AnimCurveNode::T"), Str("")>>, <<>>)

ObjAnimationCurve(k) ==
    El("AnimationCurve", <<Long(k), Str("AnimCurve::"), Str("")>>, <<>>)

ObjOther(k) == El("Pose", <<Long(k), Str("Pose::p"), Str("BindPose")>>, <<>>)

ObjNoId == El("Model", <<Str("Model::m")>>, <<>>)

ConOO(from, to) == El("C", <<Str("OO"), Long(from), Long(to)>>, <<>>)

ConOP(from, to, prop) == El("C", <<Str("OP"), Long(from), Long(to), Str(prop)>>, <<>>)

ConPP(from, src, to, prop) ==
    El("C", <<Str("PP"), Long(from), Str(src), Long(to), Str(prop)>>, <<>>)

Take(props, children) == El("Take", props, children)

\* the root element of a file with the given Objects, Connections and Takes
\* children; <<>> for a list leaves the element out, << <<>> >> makes it empty
FileRoot(os, cs, ts) ==
    El("", <<>>,
       (IF os = <<>> THEN <<>> ELSE << El("Objects", <<>>, os[1]) >>)
       \o (IF cs = <<>> THEN <<>> ELSE << El("Connections", <<>>, cs[1]) >>)
       \o (IF ts = <<>> THEN <<>> ELSE << El("Takes", <<>>, ts[1]) >>))

\* the empty scene: a root element without children
EmptyRoot == FileRoot(<<>>, <<>>, <<>>)

\* files whose Connections or Takes element is malformed, or well formed
StageRoots ==
    { FileRoot(<<>>, <<cs>>, <<>>) : cs \in {
        << El("C", <<Long(1)>>, <<>>) >>,
        << El("C", <<>>, <<>>) >>,
        << ConOO(1, 0), El("C", <<Str("OO"), Long(1)>>, <<>>) >>,
        << El("C", <<Str("OP"), Long(1), Long(2)>>, <<>>) >>,
        << El("C", <<Str("PP"), Long(1), Long(2)>>, <<>>) >>,
        << El("C", <<Str("XX"), Long(1), Long(2)>>, <<>>) >>,
        << ConOO(1, 0), ConOP(1, 2, "p"), ConPP(1, "s", 2, "p") >> } }
    \cup
    { FileRoot(<< <<ObjModel(1, "Null")>> >>, << <<ConOO(1, 0)>> >>, <<ts>>) : ts \in {
        << Take(<<Str("t")>>, <<>>) >>,
        << El("Other", <<>>, <<>>), Take(<<Long(1)>>, <<>>) >>,
        << Take(<<Str("t")>>, << El("FileName", <<Long(1)>>, <<>>) >>) >>,
        << Take(<<Str("t")>>, << El("LocalTime", <<Long(1)>>, <<>>) >>) >>,
        << Take(<<Str("t")>>, << El("ReferenceTime", <<Str("x"), Long(1)>>, <<>>) >>) >>,
        << Take(<<Str("t")>>, << El("FileName", <<Str("f")>>, <<>>),
                                 El("LocalTime", <<Long(0), Long(5)>>, <<>>),
                                 El("ReferenceTime", <<Long(0), Long(5)>>, <<>>) >>) >> } }

\* scenes picked for what parseObjects makes of them
SceneRoots ==
    { FileRoot(<<x[1]>>, <<x[2]>>, <<>>) : x \in {
        \* an empty Objects element
        << <<>>, <<>> >>,
        \* a node hierarchy under the root
        << <<ObjModel(1, "Null"), ObjModel(2, "Mesh"), ObjModel(3, "LimbNode")>>,
           <<ConOO(1, 0), ConOO(2, 1), ConOO(3, 1)>> >>,
        \* a mesh with its geometry and material
        << <<ObjModel(1, "Mesh"), ObjGeometry(2), ObjMaterial(3)>>,
           <<ConOO(2, 1), ConOO(3, 1)>> >>,
        \* a mesh handed two geometries
        << <<ObjModel(1, "Mesh"), ObjGeometry(2), ObjGeometry(3)>>,
           <<ConOO(2, 1), ConOO(3, 1)>> >>,
        \* geometries the factory rejects
        << <<ObjGeometryNoVertices(1)>>, <<>> >>,
        << <<ObjModel(1, "Null"), ObjGeometryNoIndices(2)>>, <<>> >>,
        \* an object element without an id
        << <<ObjModel(1, "Null"), ObjNoId>>, <<>> >>,
        \* a skinned geometry: geometry <- skin <- cluster <- limb
        << <<ObjGeometry(1), ObjDeformer(2, "Skin", <<>>),
             ObjDeformer(3, "Cluster", <<>>), ObjModel(4, "LimbNode")>>,
           <<ConOO(2, 1), ConOO(3, 2), ConOO(4, 3)>> >>,
        \* a cluster whose Indexes and Weights differ in length
        << <<ObjGeometry(1), ObjDeformer(2, "Skin", <<>>),
             ObjDeformer(3, "Cluster", << El("Indexes", <<Array("i", <<0, 1>>)>>, <<>>),
                                          El("Weights", <<Array("d", <<1>>)>>, <<>>) >>)>>,
           <<ConOO(2, 1), ConOO(3, 2)>> >>,
        \* a cluster under a skin that deforms no geometry
        << <<ObjDeformer(1, "Skin", <<>>), ObjDeformer(2, "Cluster", <<>>)>>,
           <<ConOO(2, 1)>> >>,
        \* a cluster under two skins, a cluster with two links
        << <<ObjDeformer(1, "Skin", <<>>), ObjDeformer(2, "Skin", <<>>),
             ObjDeformer(3, "Cluster", <<>>)>>,
           <<ConOO(3, 1), ConOO(3, 2)>> >>,
        << <<ObjDeformer(1, "Cluster", <<>>), ObjModel(2, "Null"), ObjModel(3, "Null")>>,
           <<ConOO(2, 1), ConOO(3, 1)>> >>,
        \* a node with two attributes
        << <<ObjModel(1, "Null"), ObjNodeAttribute(2), ObjNodeAttribute(3)>>,
           <<ConOO(2, 1), ConOO(3, 1)>> >>,
        \* a material with a diffuse and a normal texture, with a texture
        \* connected to no slot, and with two textures for one slot
        << <<ObjMaterial(1), ObjTexture(2), ObjTexture(3), ObjTexture(4)>>,
           <<ConOP(2, 1, "DiffuseColor"), ConOP(3, 1, "NormalMap"), ConOO(4, 1),
             ConOP(4, 1, "Bump")>> >>,
        << <<ObjMaterial(1), ObjTexture(2), ObjTexture(3)>>,
           <<ConOP(2, 1, "DiffuseColor"), ConOP(3, 1, "DiffuseColor")>> >>,
        << <<ObjMaterial(1), ObjTexture(2), ObjTexture(3)>>,
           <<ConOP(2, 1, "NormalMap"), ConPP(3, "s", 1, "NormalMap")>> >>,
        \* a stack with two layers, connected in the order of their LayerIDs
        \* and against it; layers without a LayerID; a layer of two stacks
        << <<ObjAnimationStack(1), ObjAnimationLayer(2, <<PLayerID(1)>>),
             ObjAnimationLayer(3, <<PLayerID(2)>>)>>,
           <<ConOO(2, 1), ConOO(3, 1)>> >>,
        << <<ObjAnimationStack(1), ObjAnimationLayer(2, <<PLayerID(2)>>),
             ObjAnimationLayer(3, <<PLayerID(1)>>)>>,
           <<ConOO(2, 1), ConOO(3, 1)>> >>,
        << <<ObjAnimationStack(1), ObjAnimationLayer(2, <<>>), ObjAnimationLayer(3, <<>>)>>,
           <<ConOO(2, 1), ConOO(3, 1), ConOO(3, 2)>> >>,
        \* curve nodes on a layer, and a curve node connected to two layers
        << <<ObjAnimationLayer(1, <<>>), ObjAnimationCurveNode(2), ObjAnimationCurveNode(3)>>,
           <<ConOO(2, 1), ConOO(3, 1)>> >>,
        << <<ObjAnimationLayer(1, <<>>), ObjAnimationLayer(2, <<>>), ObjAnimationCurveNode(3)>>,
           <<ConOO(3, 1), ConOO(3, 2)>> >>,
        \* a curve node on a layer of a stack that animates a model; a model
        \* animated by a curve node that is on no layer of the stack; the root
        \* animated by such a curve node
        << <<ObjAnimationStack(1), ObjAnimationLayer(2, <<>>), ObjModel(3, "Null"),
             ObjAnimationCurveNode(4)>>,
           <<ConOO(2, 1), ConOO(4, 2), ConOP(4, 3, "Lcl Translation")>> >>,
        << <<ObjModel(1, "Null"), ObjAnimationCurveNode(2), ObjAnimationStack(3)>>,
           <<ConOP(2, 1, "Lcl Rotation")>> >>,
        << <<ObjAnimationStack(1), ObjAnimationCurveNode(2)>>,
           <<ConOP(2, 0, "Lcl Translation")>> >>,
        \* a geometry with two skins
        << <<ObjGeometry(1), ObjDeformer(2, "Skin", <<>>), ObjDeformer(3, "Skin", <<>>)>>,
           <<ConOO(2, 1), ConOO(3, 1)>> >>,
        \* a node connected twice, to itself, and two nodes to each other
        << <<ObjModel(1, "Null"), ObjModel(2, "Null"), ObjModel(3, "Null")>>,
           <<ConOO(2, 1), ConOO(3, 1), ConOO(2, 1), ConOO(3, 1)>> >>,
        << <<ObjModel(1, "Null"), ObjModel(2, "Null")>>,
           <<ConOO(1, 1), ConOO(2, 1), ConOO(1, 2)>> >>,
        \* elements no factory knows, connections to ids no element has
        << <<ObjOther(1), ObjModel(2, "Camera"), ObjModel(3, "Light"), ObjModel(4, "Other")>>,
           <<ConOO(1, 0), ConOO(2, 7), ConOO(8, 2), ConOO(3, 0)>> >> } }

\* an animation curve with the given children
ObjAnimationCurveKeys(k, children) ==
    El("AnimationCurve", <<Long(k), Str("AnimCurve::"), Str("")>>, children)

\* the KeyTime, KeyValueFloat and KeyAttrFlags children of the curve scenes:
\* none, or one with an array of up to MaxCurveKeys entries; a KeyValueFloat
\* of doubles, or without a property; a KeyAttrFlags of one entry more
KeyTimeChildren ==
    {<<>>} \cup { << El("KeyTime", <<Array("l", [i \in 1..n |-> i - 1])>>, <<>>) >> :
                    n \in 0..MaxCurveKeys }

KeyValueFloatChildren ==
    {<<>>, << El("KeyValueFloat", <<>>, <<>>) >>,
     << El("KeyValueFloat", <<Array("d", <<1>>)>>, <<>>) >>}
    \cup { << El("KeyValueFloat", <<Array("f", [i \in 1..n |-> i])>>, <<>>) >> :
             n \in 0..MaxCurveKeys }

KeyAttrFlagsChildren ==
    {<<>>} \cup { << El("KeyAttrFlags",
                        <<Array("i", [i \in 1..n |-> IF i = 2 THEN eInterpolationLinear
                                                     ELSE eInterpolationCubic])>>, <<>>) >> :
                    n \in 1..(MaxCurveKeys + 1) }

\* all sequences over S of length at most n
SeqsUpTo(S, n) == UNION { [1..k -> S] : k \in 0..n }

\* the scenes of one geometry of two vertices: every PolygonVertexIndex of
\* up to MaxIndices indices of these vertices, each plain or marked as the
\* last of its polygon; one PolygonVertexIndex of 64-bit integers
PolygonIndices == (-2)..1

GeometryRoots ==
    { FileRoot(<< <<El("Geometry", <<Long(1), Str("Geometry::g"), Str("Mesh")>>,
                       << El("Vertices", <<Array("d", [i \in 1..6 |-> 0])>>, <<>>),
                          El("PolygonVertexIndex", <<Array("i", is)>>, <<>>) >>)>> >>,
               <<>>, <<>>) :
        is \in SeqsUpTo(PolygonIndices, MaxIndices) }
    \cup
    { FileRoot(<< <<El("Geometry", <<Long(1), Str("Geometry::g"), Str("Mesh")>>,
                       << El("Vertices", <<Array("d", [i \in 1..6 |-> 0])>>, <<>>),
                          El("PolygonVertexIndex", <<Array("l", <<0, 1, -1>>)>>, <<>>) >>)>> >>,
               <<>>, <<>>) }

MaxPolygonSize == 5   \* most corners of a polygon of a shaped geometry
MaxPolygons == 2      \* most polygons of a shaped geometry

\* a polygon of k corners on the vertices 0..k-1, its last index complemented
PolygonOf(k) == [j \in 1..k |-> IF j = k THEN -j ELSE j - 1]

\* the scenes of one geometry of MaxPolygonSize vertices whose
\* PolygonVertexIndex is a list of up to MaxPolygons polygons of 3 to
\* MaxPolygonSize corners each
ShapedRoots ==
    { FileRoot(<< <<El("Geometry", <<Long(1), Str("Geometry::g"), Str("Mesh")>>,
                       << El("Vertices",
                             <<Array("d", [i \in 1..(3 * MaxPolygonSize) |-> 0])>>, <<>>),
                          El("PolygonVertexIndex",
                             <<Array("i", Flatten([p \in DOMAIN sizes |-> PolygonOf(sizes[p])]))>>,
                             <<>>) >>)>> >>,
               <<>>, <<>>) :
        sizes \in SeqsUpTo(3..MaxPolygonSize, MaxPolygons) }

MaxClusterPairs == 2  \* most (index, weight) pairs of a cluster of a skinned quad

\* a geometry of five vertices with one quad on the first four
ObjQuad(k) ==
    El("Geometry", <<Long(k), Str("Geometry::g"), Str("Mesh")>>,
       << El("Vertices", <<Array("d", [i \in 1..15 |-> 0])>>, <<>>),
          El("PolygonVertexIndex", <<Array("i", <<0, 1, 2, -4>>)>>, <<>>) >>)

\* the vertex indices a cluster of the quad may name: a vertex of two slots,
\* one of one slot, the vertex no polygon uses, and one index on either side
\* of the vertices
ClusterIndices == {-1, 0, 3, 4, 5}

\* the scenes of the quad under a skin with one cluster: every Indexes of
\* up to MaxClusterPairs entries, the k-th with weight k; a cluster with
\* Indexes only
ClusterRoots ==
    { FileRoot(<< <<ObjQuad(1), ObjDeformer(2, "Skin", <<>>),
                    ObjDeformer(3, "Cluster",
                        << El("Indexes", <<Array("i", is)>>, <<>>),
                           El("Weights", <<Array("d", [k \in DOMAIN is |-> k])>>, <<>>) >>)>> >>,
               << <<ConOO(2, 1), ConOO(3, 2)>> >>, <<>>) :
        is \in SeqsUpTo(ClusterIndices, MaxClusterPairs) }
    \cup
    { FileRoot(<< <<ObjQuad(1), ObjDeformer(2, "Skin", <<>>),
                    ObjDeformer(3, "Cluster",
                        << El("Indexes", <<Array("i", <<0>>)>>, <<>>) >>)>> >>,
               << <<ConOO(2, 1), ConOO(3, 2)>> >>, <<>>) }

\* a layer of normals with the given mapping and reference and the two
\* normals <<1, 2, 3>> and <<4, 5, 6>>
LayerNormal(mapping, reference, index) ==
    El("LayerElementNormal", <<Long(0)>>,
       << El("MappingInformationType", <<Str(mapping)>>, <<>>),
          El("ReferenceInformationType", <<Str(reference)>>, <<>>),
          El("Normals", <<Array("d", <<1, 2, 3, 4, 5, 6>>)>>, <<>>) >> \o index)

\* a triangle of id k with the given layer of normals
ObjTriangle(k, layer) ==
    El("Geometry", <<Long(k), Str("Geometry::g"), Str("Mesh")>>,
       << El("Vertices", <<Array("d", [i \in 1..9 |-> i])>>, <<>>),
          El("PolygonVertexIndex", <<Array("i", <<0, 1, -3>>)>>, <<>>), layer >>)

MaxNormalIndices == 3

\* the indices a NormalsIndex may hold: the two normals, and one index on
\* either side of them
NormalIndices == {-1, 0, 1, 2}

\* the scenes of one triangle with normals: by polygon vertex through every
\* NormalsIndex of up to MaxNormalIndices entries, by polygon vertex and by
\* vertex without indices, and with a mapping parseVertexData refuses
NormalRoots ==
    { FileRoot(<< <<ObjTriangle(1, LayerNormal("ByPolygonVertex", "IndexToDirect",
                     << El("NormalsIndex", <<Array("i", is)>>, <<>>) >>))>> >>, <<>>, <<>>) :
        is \in SeqsUpTo(NormalIndices, MaxNormalIndices) }
    \cup
    { FileRoot(<< <<ObjTriangle(1, LayerNormal(mapping, "Direct", <<>>))>> >>, <<>>, <<>>) :
        mapping \in {"ByPolygonVertex", "ByVertice", "ByEdge"} }

\* an array property with the given scalars in either dialect; the text
\* dialect has type 'l' where the binary one has 'i'
ArrayIn(binary, type, payload) ==
    IF binary THEN Array(type, payload)
    ELSE TextArray(IF type = "i" THEN "l" ELSE type, payload)

\* a triangle in either dialect whose Vertices hold the scalars vs, with
\* normals by polygon vertex that hold the scalars ns
DialectTriangle(binary, vs, ns) ==
    El("Geometry", <<Long(1), Str("Geometry::g"), Str("Mesh")>>,
       << El("Vertices", <<ArrayIn(binary, "d", vs)>>, <<>>),
          El("PolygonVertexIndex", <<ArrayIn(binary, "i", <<0, 1, -3>>)>>, <<>>),
          El("LayerElementNormal", <<Long(0)>>,
             << El("MappingInformationType", <<Str("ByPolygonVertex")>>, <<>>),
                El("ReferenceInformationType", <<Str("Direct")>>, <<>>),
                El("Normals", <<ArrayIn(binary, "d", ns)>>, <<>>) >>) >>)

MaxVecScalars == 10

\* the scenes of one triangle in the given dialect: Vertices of nine and
\* more scalars, Normals of three and more scalars
DialectRoots(binary) ==
    { FileRoot(<< <<DialectTriangle(binary, [i \in 1..nv |-> i], [i \in 1..nn |-> 10 + i])>> >>,
               <<>>, <<>>) :
        nv \in 9..MaxVecScalars, nn \in 3..MaxVecScalars }

\* the scenes of one animation curve
CurveRoots ==
    { FileRoot(<< <<ObjAnimationCurveKeys(1, t \o v \o f)>> >>, <<>>, <<>>) :
        t \in KeyTimeChildren, v \in KeyValueFloatChildren, f \in KeyAttrFlagsChildren }

\* the object elements the generated scenes are made of
ObjPool ==
    UNION { { ObjModel(k, "Null"), ObjModel(k, "Mesh"), ObjGeometry(k),
              ObjDeformer(k, "Cluster", <<>>), ObjDeformer(k, "Skin", <<>>),
              ObjNodeAttribute(k) } : k \in 0..MaxId }

ConPool == { ConOO(f, t) : f \in 0..MaxId, t \in 0..MaxId }

GeneratedRoots ==
    { FileRoot(<<os>>, <<cs>>, <<>>) :
        os \in SeqsUpTo(ObjPool, MaxObjects), cs \in SeqsUpTo(ConPool, MaxConnections) }

MaxTimeMode == 15     \* the TimeMode values of the generated settings are 0..MaxTimeMode

\* P: "TimeMode", "enum", "", "", value
PTimeMode(value) ==
    El("P", <<Str("TimeMode"), Str("enum"), Str(""), Str(""), value>>, <<>>)

\* P: "UpAxis", "int", "Integer", "", 1 in the dialect of the value given
PUpAxis(value) ==
    El("P", <<Str("UpAxis"), Str("int"), Str("Integer"), Str(""), value>>, <<>>)

\* the root element of a file that has only GlobalSettings, with the given
\* children of its Properties70
SettingsRoot(ps) ==
    El("", <<>>,
       << El("GlobalSettings", <<>>,
             << El("Version", <<Long(1000)>>, <<>>), El("Properties70", <<>>, ps) >>) >>)

\* what follows the last property of a P line of a text file: the line end
\* and the closing brace of Properties70
AfterP == { eol \o <<9, 125>> \o eol : eol \in Eols }

\* the settings of the binary files: a TimeMode, none, or one without a value
BinarySettingsRoots ==
    { SettingsRoot(<<PUpAxis(IntProp(1)), PTimeMode(IntProp(mode))>>) :
        mode \in 0..MaxTimeMode }
    \cup { SettingsRoot(<<PUpAxis(IntProp(1))>>),
           SettingsRoot(<<El("P", <<Str("TimeMode"), Str("enum")>>, <<>>)>>) }

\* the same settings as the text tokenizer returns them
TextSettingsRoots ==
    { SettingsRoot(<<PUpAxis(TextLong(1, rest)), PTimeMode(TextLong(mode, rest))>>) :
        mode \in 0..MaxTimeMode, rest \in AfterP }
    \cup { SettingsRoot(<<PUpAxis(TextLong(1, rest))>>) : rest \in AfterP }

PickedRoots == {EmptyRoot} \cup StageRoots \cup SceneRoots

\* the scenes written by hand and those of one family each
SmallRoots ==
    PickedRoots \cup CurveRoots \cup GeometryRoots \cup ShapedRoots
    \cup ClusterRoots \cup NormalRoots \cup DialectRoots(TRUE) \cup BinarySettingsRoots

Roots == GeneratedRoots \cup SmallRoots

\* the scenes read from text after tokenize has failed
TextRoots == PickedRoots \cup TextSettingsRoots \cup DialectRoots(FALSE)

\* a file: the message tokenize fails with ("" when it succeeds), what
\* tokenizeText makes of the same bytes, and the element tree of the
\* tokenizer that succeeds
Files ==
    { [bin |-> "", text |-> "ok", root |-> r] : r \in Roots }
    \cup
    ({ [bin |-> MsgPastEnd, text |-> "ok", root |-> r] : r \in TextRoots }
     \cup
     { [bin |-> b, text |-> t, root |-> EmptyRoot] :
         b \in {MsgPastEnd, MsgUnknownType}, t \in {MsgTextEOF, MsgTextTodo} })

-----------------------------------------------------------------------------
(* load.                                                                   *)

\* load returns r ("scene" or "null")
Return(r) ==
    /\ result' = r
    /\ pc' = "returned"

\* the process ends inside load: a failed assert, or a call through nullptr
Crash ==
    /\ pc' = "crashed"
    /\ UNCHANGED result

\* the pass that follows the factory loop, with the map it starts from
AfterFactories(map) ==
    IF Len(m_connections) = 0
    THEN pc' = "postprocess" /\ todo' = DOMAIN map /\ conIdx' = 0
    ELSE pc' = "resolve" /\ todo' = {} /\ conIdx' = 1

\* root = tokenize(...)
LoadTokenize ==
    /\ UNCHANGED notLoad
    /\ pc = "tokenize"
    /\ ran' = Append(ran, "tokenize")
    /\ IF file.bin = ""
       THEN pc' = "connections" /\ UNCHANGED s_message
       ELSE pc' = "tokenizeText" /\ s_message' = file.bin
    /\ UNCHANGED <<file, result, m_connections, m_take_infos, m_root, m_object_map,
                   m_all_objects, m_meshes, objects, todo, conIdx>>

\* LoadTokenizeText with the reset of s_message moved behind tokenizeText
LoadTokenizeTextResetLast ==
    /\ UNCHANGED notLoad
    /\ pc = "tokenizeText"
    /\ ran' = Append(ran, "tokenizeText")
    /\ s_message' = ""
    /\ \/ /\ file.text = "ok"
          /\ pc' = "connections"
          /\ UNCHANGED result
       \/ /\ file.text # "ok"
          /\ Return("null")
    /\ UNCHANGED <<file, m_connections, m_take_infos, m_root, m_object_map,
                   m_all_objects, m_meshes, objects, todo, conIdx>>

\* Error::s_message = ""; root = tokenizeText(...); the assert(false) of
\* readTextProperty ends the process where asserts are compiled in
LoadTokenizeText ==
    /\ UNCHANGED notLoad
    /\ pc = "tokenizeText"
    /\ ran' = Append(ran, "tokenizeText")
    /\ \/ /\ file.text = "ok"
          /\ s_message' = ""
          /\ pc' = "connections"
          /\ UNCHANGED result
       \/ /\ file.text # "ok"
          /\ s_message' = file.text
          /\ Return("null")
       \/ /\ file.text = MsgTextTodo
          /\ s_message' = ""
          /\ Crash
    /\ UNCHANGED <<file, m_connections, m_take_infos, m_root, m_object_map,
                   m_all_objects, m_meshes, objects, todo, conIdx>>

\* LoadParseConnections that falls back to the text tokenizer when
\* parseConnections fails
LoadParseConnectionsRetry ==
    /\ UNCHANGED notLoad
    /\ pc = "connections"
    /\ ran' = Append(ran, "parseConnections")
    /\ LET r == parseConnections(file.root)
       IN  /\ m_connections' = r.out
           /\ pc' = IF r.ok THEN "takes" ELSE "tokenizeText"
           /\ s_message' = IF r.ok THEN s_message ELSE r.msg
    /\ UNCHANGED <<file, result, m_take_infos, m_root, m_object_map,
                   m_all_objects, m_meshes, objects, todo, conIdx>>

\* if (!parseConnections(...)) return nullptr; the assert(false) of its last
\* branch ends the process where asserts are compiled in
LoadParseConnections ==
    /\ UNCHANGED notLoad
    /\ pc = "connections"
    /\ ran' = Append(ran, "parseConnections")
    /\ LET r == parseConnections(file.root)
       IN  /\ m_connections' = r.out
           /\ \/ r.ok /\ pc' = "takes" /\ UNCHANGED <<result, s_message>>
              \/ ~r.ok /\ s_message' = r.msg /\ Return("null")
              \/ r.asserts /\ Crash /\ UNCHANGED s_message
    /\ UNCHANGED <<file, m_take_infos, m_root, m_object_map,
                   m_all_objects, m_meshes, objects, todo, conIdx>>

\* if (!parseTakes(...)) return nullptr
LoadParseTakes ==
    /\ UNCHANGED notLoad
    /\ pc = "takes"
    /\ ran' = Append(ran, "parseTakes")
    /\ LET r == parseTakes(file.root)
       IN  /\ m_take_infos' = r.out
           /\ IF r.ok THEN pc' = "objects" /\ UNCHANGED <<result, s_message>>
              ELSE s_message' = r.msg /\ Return("null")
    /\ UNCHANGED <<file, m_connections, m_root, m_object_map,
                   m_all_objects, m_meshes, objects, todo, conIdx>>

\* parseObjects up to its factory loop: without an Objects element it
\* returns true at once; else it makes the root and fills the map
LoadParseObjects ==
    /\ UNCHANGED notLoad
    /\ pc = "objects"
    /\ ran' = Append(ran, "parseObjects")
    /\ IF findChild(file.root, "Objects") = Null
       THEN /\ pc' = "settings"
            /\ UNCHANGED <<result, s_message, m_root, m_object_map, objects, todo>>
       ELSE LET root == Len(objects) + 1
                r == collectObjects(file.root.children[findChild(file.root, "Objects")].children,
                                    MapPut(m_object_map, 0, [element |-> file.root, object |-> root]))
            IN  /\ objects' = Append(objects, Root(file.root))
                /\ m_root' = root
                /\ m_object_map' = r.map
                /\ IF r.ok THEN /\ pc' = "factory"
                                /\ todo' = DOMAIN r.map
                                /\ UNCHANGED <<result, s_message>>
                   ELSE /\ s_message' = MsgInvalid
                        /\ Return("null")
                        /\ UNCHANGED todo
    /\ UNCHANGED <<file, m_connections, m_take_infos, m_all_objects, m_meshes, conIdx>>

\* the GeometryImpl with the arrays parseGeometry has filled in
withArrays(obj, arrays) ==
    [obj EXCEPT !.to_old_vertices = arrays.to_old_vertices,
                !.to_old_indices = arrays.to_old_indices,
                !.to_new_vertices = arrays.to_new_vertices,
                !.normals = arrays.normals.out]

\* the object a factory hands back: a curve holds the arrays
\* parseAnimationCurve filled, a geometry those parseGeometry filled
Constructed(type, el, id, read) ==
    IF type = "ANIMATION_CURVE"
    THEN [NewObject(type, el, id) EXCEPT !.times = curveArrays(el).times,
                                         !.values = curveArrays(el).values,
                                         !.flags = curveArrays(el).flags]
    ELSE IF type = "GEOMETRY"
    THEN withArrays(NewObject(type, el, id), geometryArrays(el, read))
    ELSE NewObject(type, el, id)

\* GeometryImpl::getVertexCount of geometry o: vertices is resized to the
\* size of to_old_vertices
getVertexCount(o) == Len(objects[o].to_old_vertices)

\* the reads of memory it does not own that the factory of element el may
\* meet: those of parseGeometry for a geometry with a layer of normals or
\* with Vertices in the text dialect
factoryReads(el) ==
    IF /\ el.id = "Geometry"
       /\ \/ findChild(el, "LayerElementNormal") # Null
          \/ HasData(el, "Vertices") /\ ~el.children[findChild(el, "Vertices")].props[1].is_binary
    THEN GeometryReads
    ELSE { [fault |-> FALSE, value |-> 0] }

\* the factory loop goes on after the entry of key k, or ends with it
FactoryDone(k, map) ==
    IF todo = {k} THEN AfterFactories(map)
    ELSE pc' = "factory" /\ todo' = todo \ {k} /\ UNCHANGED conIdx

\* what the factory loop does with what the factory of entry k handed back
FactoryOutcome(k, made, read) ==
    LET entry == m_object_map[k]
        obj == Len(objects) + 1
    IN  IF made.kind = "error"
        THEN /\ s_message' = made.msg
             /\ Return("null")
             /\ UNCHANGED <<m_object_map, m_all_objects, m_meshes, objects, todo, conIdx>>
        ELSE IF made.kind = "null"
        THEN /\ m_object_map' = [m_object_map EXCEPT ![k].object = Null]
             /\ FactoryDone(k, m_object_map)
             /\ UNCHANGED <<result, s_message, m_all_objects, m_meshes, objects>>
        ELSE IF made.kind = "crash"
        THEN Crash /\ UNCHANGED <<s_message, m_object_map, m_all_objects, m_meshes,
                                  objects, todo, conIdx>>
        ELSE /\ objects' = Append(objects, Constructed(made.type, entry.element, k, read))
             /\ m_object_map' = [m_object_map EXCEPT ![k].object = obj]
             /\ m_all_objects' = Append(m_all_objects, obj)
             /\ m_meshes' = IF made.type = "MESH" THEN Append(m_meshes, obj) ELSE m_meshes
             /\ FactoryDone(k, m_object_map)
             /\ UNCHANGED <<result, s_message>>

\* one iteration of the factory loop of parseObjects; the loop visits the
\* entries of the unordered map in an order the program does not fix.  Where
\* parseAnimationCurve takes the address of element 0 of an empty vector the
\* build decides whether the process ends there (a checked operator[], or
\* assert(out) in parseArrayRaw) or goes on.
LoadFactory ==
    /\ UNCHANGED notLoad
    /\ pc = "factory"
    /\ \E k \in todo : \E read \in factoryReads(m_object_map[k].element) :
         LET entry == m_object_map[k]
             made == Factory(entry.element, read)
         IN  IF entry.object # Null /\ entry.object = m_root
             THEN /\ FactoryDone(k, m_object_map)
                  /\ UNCHANGED <<result, s_message, m_object_map, m_all_objects,
                                 m_meshes, objects>>
             ELSE IF entry.element.id = "AnimationCurve" /\ curveArrays(entry.element).ub
             THEN \/ Crash /\ UNCHANGED <<s_message, m_object_map, m_all_objects, m_meshes,
                                          objects, todo, conIdx>>
                  \/ FactoryOutcome(k, made, read)
             ELSE FactoryOutcome(k, made, read)
    /\ UNCHANGED <<file, ran, m_connections, m_take_infos, m_root>>

\* the resolution loop goes on after connection conIdx, or ends with it
ResolveDone(map) ==
    IF conIdx = Len(m_connections)
    THEN pc' = "postprocess" /\ todo' = DOMAIN map /\ conIdx' = 0
    ELSE pc' = "resolve" /\ conIdx' = conIdx + 1 /\ UNCHANGED todo

\* a connection without a child or a parent that makes parseObjects fail
continueFails(map) ==
    /\ s_message' = MsgInvalidConnection
    /\ Return("null")
    /\ UNCHANGED <<objects, todo, conIdx>>

\* if (!child) continue; if (!parent) continue;
continue(map) ==
    /\ ResolveDone(map)
    /\ UNCHANGED <<result, s_message, objects>>

\* one iteration of the connection loop of parseObjects (the property
\* objects an OBJECT_PROPERTY connection may set are not modelled)
LoadResolve ==
    /\ UNCHANGED notLoad
    /\ pc = "resolve"
    /\ LET con == m_connections[conIdx]
           map == MapTouch(MapTouch(m_object_map, con.to), con.from)
           parent == map[con.to].object
           child == map[con.from].object
           r == resolveConnection(objects, parent, child, con)
       IN  /\ m_object_map' = map
           /\ IF child = Null \/ parent = Null
              THEN continue(map)
              ELSE /\ objects' = r.objs
                   /\ IF r.msg = ""
                      THEN ResolveDone(map) /\ UNCHANGED <<result, s_message>>
                      ELSE /\ s_message' = r.msg
                           /\ Return("null")
                           /\ UNCHANGED <<todo, conIdx>>
    /\ UNCHANGED <<file, ran, m_connections, m_take_infos, m_root, m_all_objects, m_meshes>>

\* the children of the Properties70 child of el
Properties70(el) ==
    IF findChild(el, "Properties70") = Null THEN <<>>
    ELSE el.children[findChild(el, "Properties70")].children

\* the type of the slot mProperties.Find(name) finds on an object of the
\* given type, "none" when it finds no slot (the slots of an animation layer)
SlotType(type, name) ==
    IF type # "ANIMATION_LAYER" THEN "none"
    ELSE IF name = "mLayerID" THEN "int"
    ELSE IF name = "Weight" THEN "double"
    ELSE IF name \in {"LayerMode", "LayerRotationModel"} THEN "enum"
    ELSE IF name \in {"Mute", "Solo", "Lock"} THEN "bool"
    ELSE "none"

Retrieved(ok, obj) == [ok |-> ok, obj |-> obj]

RECURSIVE retrieveProperties(_, _, _)
\* one loop of Object::Retrieve over the property elements ps; checked says
\* whether the loop tests prop->id and prop->first_property.  ok is FALSE
\* when the loop calls through a null pointer.
retrieveProperties(ps, o, checked) ==
    IF ps = <<>> THEN Retrieved(TRUE, o)
    ELSE LET prop == Head(ps)
             slot == SlotType(o.type, prop.props[1].s)
         IN  IF checked /\ (prop.id # "P" \/ ~HasProp(prop, 1))
             THEN retrieveProperties(Tail(ps), o, checked)
             ELSE IF ~HasProp(prop, 1) THEN Retrieved(FALSE, o)
             ELSE IF slot \in {"none", "bool"} THEN retrieveProperties(Tail(ps), o, checked)
             ELSE IF ~HasProp(prop, 5) THEN Retrieved(FALSE, o)
             ELSE IF slot = "int"
             THEN retrieveProperties(Tail(ps), [o EXCEPT !.LayerID = prop.props[5].n], checked)
             ELSE retrieveProperties(Tail(ps), o, checked)

\* Object::Retrieve on object o: from the element of its node attribute,
\* then from its own element
Retrieve(objs, o) ==
    LET first == IF objs[o].node_attribute = Null THEN Retrieved(TRUE, objs[o])
                 ELSE retrieveProperties(
                          Properties70(objs[objs[o].node_attribute].element), objs[o], TRUE)
    IN  IF ~first.ok THEN first
        ELSE retrieveProperties(Properties70(objs[o].element), first.obj, FALSE)

\* the orders std::sort may leave the layers in: every arrangement of them
\* in which no layer has a LayerID below that of a layer before it
sortLayers(objs, layers) ==
    LET n == Len(layers)
        perms == { p \in [1..n -> 1..n] : \A a, b \in 1..n : p[a] = p[b] => a = b }
    IN  { [k \in 1..n |-> layers[p[k]]] :
            p \in { q \in perms : \A k \in 1..(n - 1) :
                       ~(objs[layers[q[k + 1]]].LayerID < objs[layers[q[k]]].LayerID) } }

\* the reads outside to_new_vertices the postprocess of object obj may
\* meet: those of a cluster with Indexes
readsOf(obj) ==
    IF /\ obj # Null
       /\ objects[obj].type = "CLUSTER"
       /\ ArrayCount(objects[obj].element, "Indexes") > 0
    THEN OutOfRangeReads
    ELSE { [fault |-> FALSE, chain |-> <<>>] }

\* the last loop goes on after the entry of key k, or ends with it
PostprocessDone(k) ==
    /\ pc' = IF todo = {k} THEN "settings" ELSE "postprocess"
    /\ todo' = todo \ {k}

\* one iteration of the last loop of parseObjects: Retrieve, the cluster
\* postprocess, and AddChild on every parent of a node; again in an order
\* the program does not fix
LoadPostprocess ==
    /\ UNCHANGED notLoad
    /\ pc = "postprocess"
    /\ \E k \in todo : \E read \in readsOf(m_object_map[k].object) :
         LET obj == m_object_map[k].object
             got == Retrieve(objects, obj)
             retrieved == IF objects[obj].type = "CLUSTER"
                          THEN [objects EXCEPT
                                  ![obj] = [got.obj EXCEPT
                                     !.indices = postprocess(m_connections, m_object_map,
                                                     objects, obj, read).indices,
                                     !.weights = postprocess(m_connections, m_object_map,
                                                     objects, obj, read).weights]]
                          ELSE [objects EXCEPT ![obj] = got.obj]
             post == IF objects[obj].type = "CLUSTER"
                     THEN postprocess(m_connections, m_object_map, objects, obj, read).ret
                     ELSE "true"
             orders == IF objects[obj].type = "ANIMATION_STACK"
                       THEN sortLayers(retrieved, retrieved[obj].mLayers)
                       ELSE { retrieved[obj].mLayers }
         IN  IF obj = Null
             THEN PostprocessDone(k) /\ UNCHANGED <<result, s_message, objects>>
             ELSE IF ~got.ok \/ post = "crash"
             THEN Crash /\ UNCHANGED <<s_message, objects, todo>>
             ELSE IF post = "false"
             THEN /\ s_message' = MsgPostprocessCluster
                  /\ Return("null")
                  /\ UNCHANGED <<objects, todo>>
             ELSE \E order \in orders :
                  LET sorted == [retrieved EXCEPT ![obj].mLayers = order]
                      linked == IF sorted[obj].is_node
                                THEN addToParents(sorted,
                                         getParents(m_connections, m_object_map, sorted, obj),
                                         obj)
                                ELSE sorted
                  IN  IF linked = <<>>
                      THEN pc' = "hung" /\ UNCHANGED <<result, s_message, objects, todo>>
                      ELSE /\ objects' = linked
                           /\ PostprocessDone(k)
                           /\ UNCHANGED <<result, s_message>>
    /\ UNCHANGED <<file, ran, m_connections, m_take_infos, m_root, m_object_map,
                   m_all_objects, m_meshes, conIdx>>

\* getFramerateFromTimeMode, in thousandths
getFramerateFromTimeMode(time_mode) ==
    CASE time_mode = 0 -> 1000
      [] time_mode = 1 -> 120000
      [] time_mode = 2 -> 100000
      [] time_mode = 3 -> 60000
      [] time_mode = 4 -> 50000
      [] time_mode = 5 -> 48000
      [] time_mode = 6 -> 30000
      [] time_mode = 7 -> 30000
      [] time_mode = 8 -> 29970
      [] time_mode = 9 -> 29970
      [] time_mode = 10 -> 25000
      [] time_mode = 11 -> 24000
      [] time_mode = 12 -> 1000000
      [] time_mode = 13 -> 23976
      [] time_mode = 14 -> -2000
      [] OTHER -> -1000

\* *(int*)value.begin: the four bytes at value.begin as a little-endian
\* two's complement int, whatever the property holds
ReadInt(p) ==
    FromLE(SubSeq(p.data, 1, 3))
    + 16777216 * (IF p.data[4] >= 128 THEN p.data[4] - 256 ELSE p.data[4])

\* the property parseGlobalSettings reads the time mode from: getProperty(4)
\* of the first child of the first Properties70 of the first GlobalSettings
\* whose first property is "TimeMode"; <<>> when a loop ends without it or
\* getProperty returns null
timeModeProperty(root) ==
    LET gs == findChild(root, "GlobalSettings")
    IN  IF gs = Null THEN <<>>
        ELSE LET p70 == findChild(root.children[gs], "Properties70")
             IN  IF p70 = Null THEN <<>>
                 ELSE LET ps == root.children[gs].children[p70].children
                          hits == { i \in DOMAIN ps :
                                      HasProp(ps[i], 1) /\ ps[i].props[1].s = "TimeMode" }
                      IN  IF hits = {} THEN <<>>
                          ELSE LET tm == CHOOSE i \in hits : \A j \in hits : i <= j
                               IN  IF HasProp(ps[tm], 5) THEN <<ps[tm].props[5]>> ELSE <<>>

\* parseGlobalSettings: the frame rate of the scene afterwards
parseGlobalSettings(root, rate) ==
    IF timeModeProperty(root) = <<>> THEN rate
    ELSE getFramerateFromTimeMode(ReadInt(timeModeProperty(root)[1]))

\* parseGlobalSettings(...); return scene.release()
LoadParseGlobalSettings ==
    /\ UNCHANGED <<tokOnly, lastTake, prepCalls, curveVars, matrixVars>>
    /\ pc = "settings"
    /\ ran' = Append(ran, "parseGlobalSettings")
    /\ m_scene_frame_rate' = parseGlobalSettings(file.root, m_scene_frame_rate)
    /\ Return("scene")
    /\ UNCHANGED <<file, s_message, m_connections, m_take_infos, m_root, m_object_map,
                   m_all_objects, m_meshes, objects, todo, conIdx>>

\* Scene::m_animation_stacks: the factory loop pushes a stack there as it
\* pushes it to m_all_objects
m_animation_stacks ==
    SelectSeq(m_all_objects, LAMBDA a : objects[a].type = "ANIMATION_STACK")

\* PropertyList::DetachAnimNodes on the property list of o
DetachAnimNodes(o) == [o EXCEPT !.chains = [slot \in AnimatableSlots |-> <<>>]]

RECURSIVE attachNodes(_, _, _, _)
\* the curve nodes ns of a layer, attached in turn to the slots of object a
attachNodes(objs, a, o, ns) ==
    IF ns = <<>> THEN o
    ELSE LET n == Head(ns)
             slot == objs[n].bone_link_property
         IN  attachNodes(objs, a,
                 IF objs[n].mOwner = a /\ IsAnimatable(o.type, slot)
                 THEN [o EXCEPT !.chains[slot] = AttachAnimationNode(@, n)]
                 ELSE o,
                 Tail(ns))

\* PropertyList::AttachAnimNodes(pLayer) on the property list o of object a
AttachAnimNodes(objs, a, o, pLayer) == attachNodes(objs, a, o, objs[pLayer].curve_nodes)

RECURSIVE attachLayers(_, _, _, _)
\* the inner loop of PrepTakeConnections over the layers of the stack
attachLayers(objs, a, o, layers) ==
    IF layers = <<>> THEN o
    ELSE attachLayers(objs, a, AttachAnimNodes(objs, a, o, Head(layers)), Tail(layers))

RECURSIVE prepObjects(_, _, _)
\* the outer loop of PrepTakeConnections over the objects all
prepObjects(objs, all, pStack) ==
    IF all = <<>> THEN objs
    ELSE prepObjects(
             [objs EXCEPT ![Head(all)] =
                 attachLayers(objs, Head(all), DetachAnimNodes(@), objs[pStack].mLayers)],
             Tail(all), pStack)

\* Scene::PrepTakeConnections(takeIndex) on a loaded scene, with the index
\* of one of its stacks (takeIndex + 1 indexes m_animation_stacks here)
PrepTakeConnections ==
    /\ UNCHANGED <<tokOnly, curveVars, matrixVars>>
    /\ pc = "returned"
    /\ result = "scene"
    /\ prepCalls < MaxPrepCalls
    /\ \E takeIndex \in 1..Len(m_animation_stacks) :
         /\ objects' = prepObjects(objects, m_all_objects, m_animation_stacks[takeIndex])
         /\ lastTake' = takeIndex
    /\ prepCalls' = prepCalls + 1
    /\ UNCHANGED <<file, pc, result, ran, s_message, m_connections, m_take_infos, m_root,
                   m_object_map, m_all_objects, m_meshes, todo, conIdx,
                   m_scene_frame_rate>>

\* the tokenizer variables while load is modelled on element trees
TokIdle ==
    /\ data = <<>>
    /\ version = 0
    /\ current = 0
    /\ stack = <<>>
    /\ elements = <<>>
    /\ properties = <<>>
    /\ liveE = {}
    /\ liveP = {}
    /\ doubleFree = FALSE
    /\ status = "idle"
    /\ text = <<>>
    /\ past = 0
    /\ textRoot = <<>>
    /\ textStatus = "none"

\* load is called with a file; s_message is what an earlier load left
LoadInit ==
    /\ TokIdle
    /\ CurveIdle
    /\ MatrixIdle
    /\ file \in Files
    /\ s_message \in (IF file.root \in PickedRoots THEN {"", MsgPastEnd} ELSE {""})
    /\ pc = "tokenize"
    /\ result = "none"
    /\ ran = <<>>
    /\ m_connections = <<>>
    /\ m_take_infos = <<>>
    /\ m_root = Null
    /\ m_object_map = <<>>
    /\ m_all_objects = <<>>
    /\ m_meshes = <<>>
    /\ objects = <<>>
    /\ todo = {}
    /\ conIdx = 0
    /\ lastTake = 0
    /\ prepCalls = 0
    /\ m_scene_frame_rate = NoFrameRate

LoadNext ==
    \/ LoadTokenize
    \/ LoadTokenizeText
    \/ LoadParseConnections
    \/ LoadParseTakes
    \/ LoadParseObjects
    \/ LoadFactory
    \/ LoadResolve
    \/ LoadPostprocess
    \/ LoadParseGlobalSettings
    \/ PrepTakeConnections

LoadSpec == LoadInit /\ [][LoadNext]_vars

\* IScene::getRoot, getMeshCount, getAllObjectCount
getRoot == m_root

getMeshCount == Len(m_meshes)

getAllObjectCount == Len(m_all_objects)

-----------------------------------------------------------------------------
(* Properties of load, checked under LoadSpec.                             *)

\* C1: when load has returned for the empty binary scene (tokenize
\* succeeds and the root element has no children), it has returned a scene
\* whose root is an object named "RootNode", with no mesh and with exactly
\* one object, the root, among all objects.
C1_EmptySceneHasRoot ==
    (pc = "returned" /\ file.bin = "" /\ file.root = EmptyRoot) =>
        /\ result = "scene"
        /\ getRoot # Null
        /\ objects[getRoot].name = "RootNode"
        /\ getMeshCount = 0
        /\ getAllObjectCount = 1

\* C2: after a successful load every object among all objects is the one
\* the id map holds for its id, shares its id with no other object, and has
\* id 0 only if it is the synthetic root.
C2_IdsDenoteObjects ==
    result = "scene" =>
        \A i \in DOMAIN m_all_objects :
            LET o == m_all_objects[i]
            IN  /\ objects[o].id \in DOMAIN m_object_map
                /\ m_object_map[objects[o].id].object = o
                /\ \A j \in DOMAIN m_all_objects :
                       objects[m_all_objects[j]].id = objects[o].id => j = i
                /\ objects[o].id = 0 => o = m_root

\* the messages the stage named in ran can fail with
StageMessages(stage) ==
    IF stage = "tokenizeText" THEN {MsgTextEOF, MsgTextTodo}
    ELSE IF stage = "parseConnections"
         THEN {MsgInvalidConnection, MsgInvalidOO, MsgInvalidOP, MsgInvalidPP, MsgNotSupported}
    ELSE IF stage = "parseTakes"
         THEN {MsgTakeName, MsgTakeFilename, MsgTakeLocalTime, MsgTakeReferenceTime}
    ELSE IF stage = "parseObjects"
         THEN {MsgInvalid, MsgVerticesMissing, MsgIndicesMissing, MsgInvalidMesh,
               MsgInvalidLimbNode, MsgInvalidNodeAttribute, MsgInvalidCluster,
               MsgInvalidMaterial, MsgInvalidAnimationNode, MsgInvalidAnimationCurve,
               MsgFailedVertices, MsgFailedIndices, MsgInvalidNormals,
               MsgPostprocessCluster}
    ELSE {}

C4_LoadReturns == pc \notin {"crashed", "hung"}

\* C5: tokenizeText runs only as the second step of load, right after a
\* tokenize that failed, and it does run then; so a load whose tokenize
\* succeeded never runs it, whatever a later stage returns.
C5_TextOnlyAfterBinaryFailure ==
    /\ \A i \in DOMAIN ran :
           ran[i] = "tokenizeText" => (i = 2 /\ ran[1] = "tokenize" /\ file.bin # "")
    /\ (file.bin # "" /\ Len(ran) >= 2) => ran[2] = "tokenizeText"

\* C5 witness: tokenize succeeded, a later stage failed, and load returned
\* null without having run tokenizeText.
C5_LaterFailureNoRetry ==
    /\ result = "null"
    /\ file.bin = ""
    /\ ran[Len(ran)] \in {"parseConnections", "parseTakes", "parseObjects"}

\* the single binding connection i of the table fills, as <<slot, owner>>,
\* or <<>> when it fills none or one of its ends has no object
Binding(i) ==
    LET con == m_connections[i]
        known == con.to \in DOMAIN m_object_map /\ con.from \in DOMAIN m_object_map
        parent == m_object_map[con.to].object
        child == m_object_map[con.from].object
        pt == objects[parent].type
        ct == objects[child].type
    IN  IF ~known THEN <<>>
        ELSE IF parent = Null \/ child = Null THEN <<>>
        ELSE IF ct = "NODE_ATTRIBUTE" THEN <<"node attribute", parent>>
        ELSE IF pt = "MESH" /\ ct = "GEOMETRY" THEN <<"geometry", parent>>
        ELSE IF pt = "SKIN" /\ ct = "CLUSTER" THEN <<"skin", child>>
        ELSE IF pt = "CLUSTER" /\ ct \in {"LIMB_NODE", "MESH", "NULL_NODE"}
             THEN <<"link", parent>>
        ELSE IF pt = "MATERIAL" /\ ct = "TEXTURE"
                /\ con.property \in {"DiffuseColor", "NormalMap"}
             THEN <<con.property, parent>>
        ELSE <<>>

\* some connection among the first n binds what an earlier one had bound
SecondBinding(n) ==
    \E i, j \in 1..n : i < j /\ Binding(i) # <<>> /\ Binding(i) = Binding(j)

\* the number of connections the resolution loop has been through
ResolvedCount ==
    IF pc = "resolve" THEN conIdx - 1
    ELSE IF pc \in {"postprocess", "settings", "crashed", "hung"} \/ result = "scene"
         THEN Len(m_connections)
    ELSE 0

\* C12: the connection loop never goes on after a connection that binds a
\* second geometry to a mesh, a second link to a cluster, a second node
\* attribute to an object, a second texture to the diffuse or normal slot of
\* a material, or a cluster to a second skin, so load never returns a scene
\* for such a table; at that connection load returns null with a message.
C12_SecondBindingAborts ==
    /\ ~SecondBinding(ResolvedCount)
    /\ (pc = "returned" /\ conIdx > 0 /\ SecondBinding(conIdx)) =>
          /\ result = "null"
          /\ s_message \in {MsgInvalidMesh, MsgInvalidCluster, MsgInvalidNodeAttribute,
                            MsgInvalidMaterial}

\* load returned null at the connection that binds a second texture to a slot
C12_SecondTextureRejected ==
    /\ pc = "returned"
    /\ result = "null"
    /\ conIdx > 0
    /\ SecondBinding(conIdx)
    /\ s_message = MsgInvalidMaterial

\* connection i of the table binds a skin to a geometry: <<geometry>>, else <<>>
SkinBinding(i) ==
    LET con == m_connections[i]
        known == con.to \in DOMAIN m_object_map /\ con.from \in DOMAIN m_object_map
        parent == m_object_map[con.to].object
        child == m_object_map[con.from].object
    IN  IF ~known THEN <<>>
        ELSE IF parent = Null \/ child = Null THEN <<>>
        ELSE IF objects[parent].type = "GEOMETRY" /\ objects[child].type = "SKIN"
             THEN <<parent>>
        ELSE <<>>

\* C13: the connection loop never goes on after a connection that binds a
\* skin to a geometry to which an earlier connection bound another skin, so
\* no geometry of a loaded scene has had its skin replaced.
C13_SecondSkinAborts ==
    ~\E i, j \in 1..ResolvedCount :
        /\ i < j
        /\ SkinBinding(i) # <<>>
        /\ SkinBinding(i) = SkinBinding(j)
        /\ m_connections[i].from # m_connections[j].from

\* whether the layers are in non-decreasing order of the LayerID they hold
LayersSorted(layers) ==
    \A k \in 1..(Len(layers) - 1) :
        objects[layers[k]].LayerID <= objects[layers[k + 1]].LayerID

\* C14: in the scene load returns, the layers of every animation stack are
\* in non-decreasing order of the LayerIDs they were loaded with.
C14_LayersSortedByLayerID ==
    result = "scene" =>
        \A s \in 1..Len(objects) :
            objects[s].type = "ANIMATION_STACK" => LayersSorted(objects[s].mLayers)

\* C15: in the scene load returns, every curve node in the curve-node list
\* of an animation layer has that layer as its mLayer.
C15_CurveNodeLayerIsOwner ==
    result = "scene" =>
        \A l \in 1..Len(objects) :
            objects[l].type = "ANIMATION_LAYER" =>
                \A k \in 1..Len(objects[l].curve_nodes) :
                    objects[objects[l].curve_nodes[k]].mLayer = l

\* whether curve node n is connected to the slot of object o
Targets(n, o, slot) ==
    \E i \in 1..Len(m_connections) :
        /\ m_connections[i].from = objects[n].id
        /\ m_connections[i].to = objects[o].id
        /\ m_connections[i].property = slot

RECURSIVE OnLayers(_, _, _)
\* the curve nodes on the layers that target the slot of o, layer by layer
OnLayers(layers, o, slot) ==
    IF layers = <<>> THEN <<>>
    ELSE SelectSeq(objects[Head(layers)].curve_nodes, LAMBDA n : Targets(n, o, slot))
         \o OnLayers(Tail(layers), o, slot)

\* the objects of the scene: the root and every object a factory made
SceneObjects == {m_root} \cup { m_all_objects[i] : i \in 1..Len(m_all_objects) }

\* C16: after PrepTakeConnections(stackIndex) has returned, the chain of
\* every animatable slot of every object of the scene holds exactly the curve
\* nodes on the layers of that stack that target the slot, at most one for a
\* layer and in the layer order of the stack, whatever load or an earlier
\* call left there.
C16_ChainsOfTheStack ==
    lastTake # 0 =>
        \A o \in SceneObjects, slot \in AnimatableSlots :
            IsAnimatable(objects[o].type, slot) =>
                LET layers == objects[m_animation_stacks[lastTake]].mLayers
                    chain == objects[o].chains[slot]
                IN  /\ chain = OnLayers(layers, o, slot)
                    /\ \A k \in 1..Len(layers) :
                           Cardinality({ j \in 1..Len(chain) :
                               \E c \in 1..Len(objects[layers[k]].curve_nodes) :
                                   objects[layers[k]].curve_nodes[c] = chain[j] }) <= 1

\* the animation curves load has constructed
Curves == { o \in 1..Len(objects) : objects[o].type = "ANIMATION_CURVE" }

\* the elements load takes for animation curves whose KeyTime and
\* KeyValueFloat arrays differ in their counts
MismatchedCurves ==
    { k \in DOMAIN m_object_map :
        LET el == m_object_map[k].element
        IN  /\ el.id = "AnimationCurve"
            /\ HasData(el, "KeyTime")
            /\ HasData(el, "KeyValueFloat")
            /\ ArrayCount(el, "KeyTime") # ArrayCount(el, "KeyValueFloat") }

\* C17: every curve of a scene load has returned holds as many times as
\* values, and load returns no scene for a file with a curve element whose
\* KeyTime and KeyValueFloat arrays differ in their counts.
C17_TimesMatchValues ==
    result = "scene" =>
        /\ \A o \in Curves : Len(objects[o].times) = Len(objects[o].values)
        /\ MismatchedCurves = {}

\* load has returned a scene with a curve of two keys
C17_TwoKeysLoaded ==
    /\ result = "scene"
    /\ \E o \in Curves : Len(objects[o].times) = 2 /\ Len(objects[o].values) = 2

\* C18: a curve of a loaded scene whose element has a KeyAttrFlags array
\* holds the entries of that array as its flags when the array has one entry
\* for each key, and its single entry once for each key when it has one
\* entry; load returns no scene for a KeyAttrFlags array of another count.
C18_FlagsFromKeyAttrFlags ==
    result = "scene" =>
        \A o \in Curves :
            HasData(objects[o].element, "KeyAttrFlags") =>
                LET el == objects[o].element
                    KeyAttrFlags == el.children[findChild(el, "KeyAttrFlags")].props[1].data
                    keys == Len(objects[o].values)
                IN  \/ Len(KeyAttrFlags) = keys /\ objects[o].flags = KeyAttrFlags
                    \/ /\ Len(KeyAttrFlags) = 1
                       /\ objects[o].flags = [i \in 1..keys |-> KeyAttrFlags[1]]

\* the geometries load has constructed
Geometries == { o \in 1..Len(objects) : objects[o].type = "GEOMETRY" }

\* C19: the vertex count of every geometry of a scene load has returned is
\* a multiple of 3, and no index triangulate has pushed for it is negative.
C19_TrianglesOnly ==
    result = "scene" =>
        \A o \in Geometries :
            /\ getVertexCount(o) % 3 = 0
            /\ \A i \in 1..Len(objects[o].to_old_vertices) : objects[o].to_old_vertices[i] >= 0

\* whether connection i of the table has an end without a constructed object
Dangling(i) ==
    \/ m_connections[i].to \notin DOMAIN m_object_map
    \/ m_connections[i].from \notin DOMAIN m_object_map
    \/ m_object_map[m_connections[i].to].object = Null
    \/ m_object_map[m_connections[i].from].object = Null

\* whether both ends of connection i are the given objects
Connects(i, child, parent) ==
    /\ ~Dangling(i)
    /\ m_object_map[m_connections[i].from].object = child
    /\ m_object_map[m_connections[i].to].object = parent

\* C20: the iteration of the connection loop for a connection one of whose
\* ids has no constructed object changes no object and neither ends load nor
\* sets a message, and a node has a parent only by a connection both of
\* whose ids have constructed objects.
C20_DanglingSkipped ==
    /\ [][(pc = "resolve" /\ Dangling(conIdx)) =>
            /\ objects' = objects
            /\ s_message' = s_message
            /\ result' = result
            /\ pc' \in {"resolve", "postprocess"}]_vars
    /\ [](\A o \in 1..Len(objects) :
             objects[o].mParent # Null =>
                 \E i \in 1..Len(m_connections) : Connects(i, o, objects[o].mParent))

\* load has returned a scene with a hierarchy for a table that has a
\* connection from an id without an object and one to such an id
C20_LoadedDespiteDangling ==
    /\ result = "scene"
    /\ \E o \in 1..Len(objects) : objects[o].mParent # Null
    /\ \E i, j \in 1..Len(m_connections) :
           /\ m_object_map[m_connections[i].from].object = Null
           /\ m_object_map[m_connections[j].to].object = Null
           /\ m_object_map[m_connections[i].to].object # Null
           /\ m_object_map[m_connections[j].from].object # Null

\* the TimeMode value the file carries in its GlobalSettings, as a sequence
\* of none or one
TimeModeOf(root) ==
    IF timeModeProperty(root) = <<>> THEN <<>> ELSE <<timeModeProperty(root)[1].n>>

\* C21: getSceneFrameRate of a loaded scene is the table's frame rate for the
\* TimeMode of the file's GlobalSettings, and -1 when the file has none, in
\* the binary and in the text dialect alike
C21_FrameRateFromTimeMode ==
    result = "scene" =>
        m_scene_frame_rate =
            (IF TimeModeOf(file.root) = <<>> THEN NoFrameRate
             ELSE getFramerateFromTimeMode(TimeModeOf(file.root)[1]))

\* the PolygonVertexIndex array of the element geometry o was made from
PolygonVertexIndex(o) ==
    objects[o].element.children[findChild(objects[o].element, "PolygonVertexIndex")]
        .props[1].data

\* the positions (from 1) of the complemented indices of is: the polygon ends
PolygonEnds(is) == { e \in DOMAIN is : is[e] < 0 }

\* the position just before the polygon that ends at e begins
PolygonBase(is, e) ==
    IF \E f \in PolygonEnds(is) : f < e
    THEN CHOOSE f \in PolygonEnds(is) : f < e /\ \A g \in PolygonEnds(is) : g < e => g <= f
    ELSE 0

\* is is a list of closed polygons of three or more indices each
ClosedPolygons(is) ==
    /\ is # <<>> => Len(is) \in PolygonEnds(is)
    /\ \A e \in PolygonEnds(is) : e - PolygonBase(is, e) >= 3

\* the index a corner stands for, its complement when it ends the polygon
Corner(is, p) == IF is[p] < 0 THEN -(is[p] + 1) ELSE is[p]

\* the fan of the polygon of k corners after position b: for i = 2..k-1 the
\* corners at the positions of v0, v_{i-1} and v_i (positions from 1)
FanPositions(b, k) == Flatten([t \in 1..(k - 2) |-> <<b + 1, b + t + 1, b + t + 2>>])

RECURSIVE Fans(_, _)
\* the fans of the polygons of is from position b + 1 on
Fans(is, b) ==
    IF b >= Len(is) THEN <<>>
    ELSE LET e == CHOOSE f \in PolygonEnds(is) :
                     f > b /\ \A g \in PolygonEnds(is) : g > b => f <= g
         IN  FanPositions(b, e - b) \o Fans(is, e)

\* C23: in a loaded scene, a geometry made from a list of closed polygons of
\* three or more indices holds, polygon after polygon, the fan triangles
\* (v0, v_{i-1}, v_i) for i = 2..k-1 of each, and for every corner the
\* position (from 0) of its index in the list; a list of triangles only comes
\* back as the same triangles.
C23_FanTriangulation ==
    result = "scene" =>
        \A o \in Geometries :
            LET is == PolygonVertexIndex(o)
                fan == Fans(is, 0)
            IN  ClosedPolygons(is) =>
                  /\ objects[o].to_old_vertices = [c \in DOMAIN fan |-> Corner(is, fan[c])]
                  /\ objects[o].to_old_indices = [c \in DOMAIN fan |-> fan[c] - 1]
                  /\ (\A e \in PolygonEnds(is) : e - PolygonBase(is, e) = 3) =>
                        objects[o].to_old_vertices = [c \in DOMAIN is |-> Corner(is, c)]

\* a scene is loaded whose geometry was made from a quad followed by a
\* pentagon, and holds the five triangles of their fans
C23_QuadAndPentagonLoaded ==
    /\ result = "scene"
    /\ \E o \in Geometries :
         /\ PolygonVertexIndex(o) = <<0, 1, 2, -4, 0, 1, 2, 3, -5>>
         /\ objects[o].to_old_indices = <<0, 1, 2, 0, 2, 3, 4, 5, 6, 4, 6, 7, 4, 7, 8>>

\* the clusters that have a skin with a geometry
SkinnedClusters ==
    { o \in 1..Len(objects) :
        /\ objects[o].type = "CLUSTER"
        /\ objects[o].skin # Null
        /\ resolveObjectLinkReverse(m_connections, m_object_map, objects,
                                    objects[o].skin, "GEOMETRY") # Null }

\* the geometry cluster o deforms
ClusterGeometry(o) ==
    resolveObjectLinkReverse(m_connections, m_object_map, objects, objects[o].skin, "GEOMETRY")

\* the array of the child id of the element cluster o was made from
ClusterData(o, id) ==
    IF HasData(objects[o].element, id)
    THEN objects[o].element.children[findChild(objects[o].element, id)].props[1].data
    ELSE <<>>

\* the triangulated slots of geometry g (from 0, ascending) that came from
\* the original vertex old_idx
SlotsOf(g, old_idx) ==
    SelectSeq([c \in DOMAIN objects[g].to_old_vertices |-> c - 1],
              LAMBDA c : objects[g].to_old_vertices[c + 1] = old_idx)

\* the <<new_idx, w>> pairs cluster o is to hold
ExpectedPairs(o) ==
    Flatten([p \in DOMAIN ClusterData(o, "Indexes") |->
               [k \in DOMAIN SlotsOf(ClusterGeometry(o), ClusterData(o, "Indexes")[p]) |->
                  << SlotsOf(ClusterGeometry(o), ClusterData(o, "Indexes")[p])[k],
                     ClusterData(o, "Weights")[p] >>]])

\* C24: in a loaded scene every cluster holds, for the pairs of its Indexes
\* and Weights in order, one pair of slot and weight for each triangulated
\* slot of the pair's vertex, none for a vertex without a slot, and as many
\* indices as weights.
C24_ClusterPairsFollowChains ==
    result = "scene" =>
        \A o \in SkinnedClusters :
            /\ objects[o].indices = [k \in DOMAIN ExpectedPairs(o) |-> ExpectedPairs(o)[k][1]]
            /\ objects[o].weights = [k \in DOMAIN ExpectedPairs(o) |-> ExpectedPairs(o)[k][2]]
            /\ Len(objects[o].indices) = Len(objects[o].weights)

\* the layer of normals of geometry o, its NormalsIndex and the number of
\* its normals
HasNormalLayer(o) == findChild(objects[o].element, "LayerElementNormal") # Null

NormalLayer(o) ==
    objects[o].element.children[findChild(objects[o].element, "LayerElementNormal")]

NormalsIndex(o) ==
    IF /\ ChildString(NormalLayer(o), "ReferenceInformationType") = "IndexToDirect"
       /\ HasData(NormalLayer(o), "NormalsIndex")
    THEN NormalLayer(o).children[findChild(NormalLayer(o), "NormalsIndex")].props[1].data
    ELSE <<>>

NormalCount(o) ==
    Len(NormalLayer(o).children[findChild(NormalLayer(o), "Normals")].props[1].data) \div 3

\* the slots of geometry o whose corner has a NormalsIndex entry that is
\* negative or not below the number of normals
OutOfRangeSlots(o) ==
    { i \in DOMAIN objects[o].to_old_indices :
        /\ objects[o].to_old_indices[i] + 1 \in DOMAIN NormalsIndex(o)
        /\ NormalsIndex(o)[objects[o].to_old_indices[i] + 1] \notin 0..(NormalCount(o) - 1) }

\* the same with the entries that are not below the number of normals only
TooLargeSlots(o) ==
    { i \in OutOfRangeSlots(o) :
        NormalsIndex(o)[objects[o].to_old_indices[i] + 1] >= NormalCount(o) }

\* C25: of a geometry with normals by polygon vertex through NormalsIndex,
\* every corner whose index is negative or not below the number of normals
\* has the zero normal in the scene load returns, and load of such a file
\* neither stops nor fails.
C25_OutOfRangeIsZero ==
    /\ file.root \in NormalRoots => pc # "crashed"
    /\ result = "scene" =>
         \A o \in Geometries :
            HasNormalLayer(o) /\ NormalsIndex(o) # <<>> =>
                \A i \in OutOfRangeSlots(o) : objects[o].normals[i] = ZeroVec(3)

\* the scalars of the first property of the child of geometry o with the
\* given id, and of its Normals
ScalarsOf(el, id) == el.children[findChild(el, id)].props[1].data

\* geometry o has normals by polygon vertex without indices
DirectNormals(o) ==
    /\ HasNormalLayer(o)
    /\ ChildString(NormalLayer(o), "MappingInformationType") = "ByPolygonVertex"
    /\ NormalsIndex(o) = <<>>
    /\ HasData(NormalLayer(o), "Normals")

\* C28: in a scene load returns, from either dialect, the vertices of a
\* geometry are as many elements as a third of the scalars of Vertices, and
\* with normals by polygon vertex the normal of a corner is made of the
\* three scalars at three times the corner's position, zero past the last
\* whole element.
C28_SameElementsInBothDialects ==
    result = "scene" =>
        \A o \in Geometries :
            /\ Len(objects[o].to_new_vertices)
                 = Len(ScalarsOf(objects[o].element, "Vertices")) \div 3
            /\ DirectNormals(o) =>
                 \A i \in DOMAIN objects[o].normals :
                    objects[o].normals[i] =
                        IF objects[o].to_old_indices[i] < NormalCount(o)
                        THEN SubSeq(ScalarsOf(NormalLayer(o), "Normals"),
                                    3 * objects[o].to_old_indices[i] + 1,
                                    3 * objects[o].to_old_indices[i] + 3)
                        ELSE ZeroVec(3)

\* the nodes among the objects
SceneNodes == { o \in 1..Len(objects) : objects[o].is_node }

RECURSIVE ParentChainEnds(_, _)
\* following mParent from o reaches a node without a parent in at most fuel
\* steps
ParentChainEnds(o, fuel) ==
    IF objects[o].mParent = Null THEN TRUE
    ELSE IF fuel = 0 THEN FALSE
    ELSE ParentChainEnds(objects[o].mParent, fuel - 1)

RECURSIVE ChildrenFrom(_, _)
\* the nodes met from c along mNext, cut after fuel of them
ChildrenFrom(c, fuel) ==
    IF c = Null \/ fuel = 0 THEN <<>>
    ELSE <<c>> \o ChildrenFrom(objects[c].mNext, fuel - 1)

\* the child list of p as Children() / GetNext() walk it
ChildList(p) == ChildrenFrom(objects[p].mFirstChild, Len(objects) + 1)

Occurrences(list, o) == Cardinality({ i \in DOMAIN list : list[i] = o })

\* C29: in a scene load has returned, following mParent from any node ends
\* at a node without a parent, every child list ends, and a node is once in
\* the child list of its parent and in no other child list.
C29_HierarchyIsForest ==
    result = "scene" =>
        \A o \in SceneNodes :
            /\ ParentChainEnds(o, Len(objects))
            /\ Len(ChildList(o)) <= Len(objects)
            /\ \A p \in SceneNodes :
                  Occurrences(ChildList(p), o) = IF objects[o].mParent = p THEN 1 ELSE 0

-----------------------------------------------------------------------------
(* AnimationCurveImpl::Evaluate.  Key times are strictly increasing.  A    *)
(* value Evaluate returns is held in units of 1/Unit, so that linear       *)
(* interpolation between two keys is exact.                                *)

MaxKeys == 3      \* most keys of a curve
MaxTime == 3      \* key times and requested times are 0..MaxTime
MaxValue == 2     \* key values are 0..MaxValue
MaxCalls == 3     \* most Evaluate calls on one curve

\* OFBTime::MinusInfinity: a time stamp below every time a caller passes
MinusInfinity == -1

RECURSIVE Factorial(_)
Factorial(n) == IF n = 0 THEN 1 ELSE n * Factorial(n - 1)

\* every difference of two key times divides Unit
Unit == Factorial(MaxTime)

Increasing(ts) == \A i \in DOMAIN ts : \A j \in DOMAIN ts : i < j => ts[i] < ts[j]

KeyTimes == { ts \in SeqsUpTo(0..MaxTime, MaxKeys) : Increasing(ts) }

RECURSIVE interpolate(_, _, _, _)
\* the for loop of Evaluate from index i on (indices from 1; the loop starts
\* at the second key): the value at the first key at or after fbx_time,
\* interpolated from the key before it, or 0.0f when no key is found
interpolate(ts, vs, fbx_time, i) ==
    IF i > Len(vs) THEN 0
    ELSE IF ts[i] >= fbx_time
         THEN (vs[i - 1] * ((ts[i] - ts[i - 1]) - (fbx_time - ts[i - 1]))
               + vs[i] * (fbx_time - ts[i - 1])) * (Unit \div (ts[i] - ts[i - 1]))
         ELSE interpolate(ts, vs, fbx_time, i + 1)

\* the clamp of the requested time to the first and last key time
clamp(ts, time) ==
    LET lo == IF time < ts[1] THEN ts[1] ELSE time
    IN  IF lo > ts[Len(ts)] THEN ts[Len(ts)] ELSE lo

\* the else branch of Evaluate: the value it computes for time
evaluate(ts, vs, time) ==
    IF Len(vs) > 0 THEN interpolate(ts, vs, clamp(ts, time), 2) ELSE 0

\* double Evaluate(const OFBTime &time)
Evaluate ==
    /\ Len(evalLog) < MaxCalls
    /\ \E time \in 0..MaxTime :
         IF mLastEvalTime = time
         THEN /\ evalLog' = Append(evalLog, [time |-> time, ret |-> mLastEvalValue])
              /\ UNCHANGED mLastEvalTime
         ELSE /\ mLastEvalTime' = time
              /\ evalLog' = Append(evalLog, [time |-> time, ret |-> evaluate(times, values, time)])
    /\ UNCHANGED <<times, values, mLastEvalValue>>
    /\ UNCHANGED <<tokOnly, loadOnly, takeVars, s_message, matrixVars>>

\* a curve as AnimationCurveImpl's constructor and parseAnimationCurve
\* leave it
CurveInit ==
    /\ TokIdle
    /\ LoadIdle
    /\ MatrixIdle
    /\ s_message = ""
    /\ times \in KeyTimes
    /\ values \in [1..Len(times) -> 0..MaxValue]
    /\ mLastEvalTime = MinusInfinity
    /\ mLastEvalValue = 0
    /\ evalLog = <<>>

CurveNext == Evaluate

CurveSpec == CurveInit /\ [][CurveNext]_vars

\* C8: of two consecutive Evaluate calls with the same time, the second
\* returns what the first returned.
C8_SameTimeSameValue ==
    \A i \in 1..(Len(evalLog) - 1) :
        evalLog[i].time = evalLog[i + 1].time => evalLog[i + 1].ret = evalLog[i].ret

\* C9: every Evaluate call on a curve with keys returned the first value
\* for a time at or before the first key, the last value for a time at or
\* after the last key, and the value of a key for the time of that key; on
\* a curve without keys it returned 0.
C9_BoundaryValues ==
    \A c \in DOMAIN evalLog :
        IF Len(times) = 0 THEN evalLog[c].ret = 0
        ELSE /\ evalLog[c].time <= times[1] => evalLog[c].ret = values[1] * Unit
             /\ evalLog[c].time >= times[Len(times)]
                    => evalLog[c].ret = values[Len(times)] * Unit
             /\ \A i \in DOMAIN times :
                    evalLog[c].time = times[i] => evalLog[c].ret = values[i] * Unit

-----------------------------------------------------------------------------
(* Model::GetMatrix on a node and its parent.  A matrix is the sequence of *)
(* the times its factors were evaluated at: the local transform of a node  *)
(* at time t is <<t>>, and a product is the concatenation of its factors.  *)

Nodes == {1, 2}

\* Model::mParent: node 2 is the child of node 1, which has no parent
mParent(n) == IF n = 2 THEN 1 ELSE Null

\* evalLocal on the translation, rotation and scaling read at lTime
evalLocal(lTime) == <<lTime>>

MatrixMult(a, b) == a \o b

RECURSIVE getMatrix(_, _, _, _)
\* Model::GetMatrix on node n of the caches st: the caches it leaves and
\* the matrix it hands back
getMatrix(st, n, pGlobalInfo, lTime) ==
    LET s1 == [st EXCEPT !.mLocalCache[n] = evalLocal(lTime)]
        up == getMatrix(s1, mParent(n), TRUE, lTime)
        s2 == IF mParent(n) # Null
              THEN [up.st EXCEPT !.mGlobalCache[n] = MatrixMult(up.ret, up.st.mLocalCache[n])]
              ELSE [s1 EXCEPT !.mGlobalCache[n] = s1.mLocalCache[n]]
        s3 == IF st.mCacheTime[n] = lTime THEN st
              ELSE IF pGlobalInfo THEN [s2 EXCEPT !.mCacheTime[n] = lTime]
              ELSE s1
    IN  [st |-> s3, ret |-> IF pGlobalInfo THEN s3.mGlobalCache[n] ELSE s3.mLocalCache[n]]

\* void Model::GetMatrix(pMatrix, pWhat, pGlobalInfo, pTime)
GetMatrix ==
    /\ \E n \in Nodes, pGlobalInfo \in BOOLEAN, pTime \in 0..MaxTime :
         LET r == getMatrix([mCacheTime |-> mCacheTime, mLocalCache |-> mLocalCache,
                             mGlobalCache |-> mGlobalCache], n, pGlobalInfo, pTime)
         IN  /\ mCacheTime' = r.st.mCacheTime
             /\ mLocalCache' = r.st.mLocalCache
             /\ mGlobalCache' = r.st.mGlobalCache
             /\ lastCall' = << [node |-> n, pGlobalInfo |-> pGlobalInfo,
                                pTime |-> pTime, pMatrix |-> r.ret] >>
    /\ UNCHANGED <<tokOnly, loadOnly, takeVars, s_message, curveVars, modelVars>>

\* two nodes as Model's constructor leaves them
MatrixInit ==
    /\ TokIdle
    /\ LoadIdle
    /\ CurveIdle
    /\ s_message = ""
    /\ mCacheTime = [n \in Nodes |-> MinusInfinity]
    /\ mLocalCache = [n \in Nodes |-> <<>>]
    /\ mGlobalCache = [n \in Nodes |-> <<>>]
    /\ lastCall = <<>>
    /\ EvalIdle
    /\ VisIdle

MatrixNext == GetMatrix

MatrixSpec == MatrixInit /\ [][MatrixNext]_vars

RECURSIVE globalAt(_, _)
\* parent.global . local of node n, all evaluated at time t
globalAt(n, t) ==
    IF mParent(n) = Null THEN evalLocal(t)
    ELSE MatrixMult(globalAt(mParent(n), t), evalLocal(t))

\* C10: the matrix the latest GetMatrix call handed back is the local
\* transform, or parent.global . local, evaluated at the time of that call.
C10_MatrixAtRequestedTime ==
    \A c \in DOMAIN lastCall :
        lastCall[c].pMatrix = IF lastCall[c].pGlobalInfo
                              THEN globalAt(lastCall[c].node, lastCall[c].pTime)
                              ELSE evalLocal(lastCall[c].pTime)

-----------------------------------------------------------------------------
(* Model::evalLocal.  A matrix is the sequence of its factors, as above; a *)
(* factor is a translation, a scaling or a rotation with its vector, and a *)
(* rotation carries the order its three axis rotations are composed in.    *)

MaxCoord == 1

\* the vectors the properties and arguments are drawn from
Vectors == { <<0, 0, 0>> } \cup { <<c, 0, 0>> : c \in 1..MaxCoord }

RotationOrders ==
    { "eEULER_XYZ", "eEULER_XZY", "eEULER_YZX", "eEULER_YXZ", "eEULER_ZXY", "eEULER_ZYX",
      "eSPHERIC_XYZ" }

\* the Models evalLocal is called on
EvalNodes ==
    [ RotationActive : BOOLEAN, RotationOrder : RotationOrders,
      RotationPivot : Vectors, ScalingPivot : Vectors,
      RotationOffset : Vectors, ScalingOffset : Vectors,
      PreRotation : Vectors, PostRotation : Vectors ]

VectorIsZero(v) == v = <<0, 0, 0>>

\* operator- of a vector
Negated(v) == [i \in 1..3 |-> -v[i]]

\* makeIdentity followed by setTranslation
TranslationMatrix(v) == << [kind |-> "translation", v |-> v, axes |-> <<>>] >>

\* makeIdentity with m[0], m[5] and m[10] set
ScalingMatrix(v) == << [kind |-> "scaling", v |-> v, axes |-> <<>>] >>

\* the axes in the order a rotation order composes them
EulerAxes(order) ==
    CASE order = "eEULER_XZY" -> <<"X", "Z", "Y">>
      [] order = "eEULER_YZX" -> <<"Y", "Z", "X">>
      [] order = "eEULER_YXZ" -> <<"Y", "X", "Z">>
      [] order = "eEULER_ZXY" -> <<"Z", "X", "Y">>
      [] order = "eEULER_ZYX" -> <<"Z", "Y", "X">>
      [] OTHER -> <<"X", "Y", "Z">>

getRotationMatrix(euler, order) ==
    << [kind |-> "rotation", v |-> euler, axes |-> EulerAxes(order)] >>

\* the rotation order of the node whatever RotationActive is
rotationAlways(node) ==
    [rotation_order |-> node.RotationOrder,
     preRotation |-> IF node.RotationActive THEN node.PreRotation ELSE <<0, 0, 0>>,
     postRotation |-> IF node.RotationActive THEN node.PostRotation ELSE <<0, 0, 0>>]

\* rotation_order, preRotation and postRotation after if (enableRotationDOF)
rotationInEffect(node) ==
    IF node.RotationActive
    THEN [rotation_order |-> node.RotationOrder, preRotation |-> node.PreRotation,
          postRotation |-> node.PostRotation]
    ELSE [rotation_order |-> "eEULER_XYZ", preRotation |-> <<0, 0, 0>>,
          postRotation |-> <<0, 0, 0>>]

\* the product of the matrices of ms, from the left
RECURSIVE Product(_)
Product(ms) == IF ms = <<>> THEN <<>> ELSE MatrixMult(Head(ms), Product(Tail(ms)))

\* the matrix Model::evalLocal writes to *result, dof being the rotation
\* order, pre-rotation and post-rotation in effect
evalLocalWith(node, dof, translation, rotation, scaling) ==
    IF /\ VectorIsZero(node.RotationPivot) /\ VectorIsZero(node.ScalingPivot)
       /\ VectorIsZero(dof.preRotation) /\ VectorIsZero(dof.postRotation)
       /\ VectorIsZero(node.RotationOffset) /\ VectorIsZero(node.ScalingOffset)
    THEN Product(<< TranslationMatrix(translation),
                    getRotationMatrix(rotation, dof.rotation_order),
                    ScalingMatrix(scaling) >>)
    ELSE Product(<< TranslationMatrix(translation),
                    TranslationMatrix(node.RotationOffset),
                    TranslationMatrix(node.RotationPivot),
                    getRotationMatrix(dof.preRotation, "eEULER_XYZ"),
                    getRotationMatrix(rotation, dof.rotation_order),
                    getRotationMatrix(Negated(dof.postRotation), "eEULER_ZYX"),
                    TranslationMatrix(Negated(node.RotationPivot)),
                    TranslationMatrix(node.ScalingOffset),
                    TranslationMatrix(node.ScalingPivot),
                    ScalingMatrix(scaling),
                    TranslationMatrix(Negated(node.ScalingPivot)) >>)

\* bool Model::evalLocal(result, translation, rotation, scaling)
EvalLocal ==
    /\ \E translation \in Vectors, rotation \in Vectors :
         evalCall' = << [translation |-> translation, rotation |-> rotation,
                         scaling |-> <<1, 1, 1>>,
                         result |-> evalLocalWith(evalNode, rotationInEffect(evalNode),
                                                  translation, rotation, <<1, 1, 1>>)] >>
    /\ UNCHANGED <<tokOnly, loadOnly, takeVars, s_message, curveVars,
                   mCacheTime, mLocalCache, mGlobalCache, lastCall,
                   evalNode, visNodes, visCall>>

\* a Model with any properties, before a call
EvalInit ==
    /\ TokIdle
    /\ LoadIdle
    /\ CurveIdle
    /\ CacheIdle
    /\ VisIdle
    /\ s_message = ""
    /\ evalNode \in EvalNodes
    /\ evalCall = <<>>

EvalNext == EvalLocal

EvalSpec == EvalInit /\ [][EvalNext]_vars

\* some pivot or offset of the node is not zero
HasPivotOrOffset(node) ==
    \/ ~VectorIsZero(node.RotationPivot) \/ ~VectorIsZero(node.ScalingPivot)
    \/ ~VectorIsZero(node.RotationOffset) \/ ~VectorIsZero(node.ScalingOffset)

\* the pre-rotation or the post-rotation of the node is in effect and not zero
HasPreOrPostRotation(node) ==
    /\ node.RotationActive
    /\ ~VectorIsZero(node.PreRotation) \/ ~VectorIsZero(node.PostRotation)

\* T . R . S with R in the given order
CheapPath(call, order) ==
    Product(<< TranslationMatrix(call.translation), getRotationMatrix(call.rotation, order),
               ScalingMatrix(call.scaling) >>)

\* the matrix is the long product: it has the factors of the pivots and offsets
IsLongProduct(matrix) == Len(matrix) > 3

-----------------------------------------------------------------------------
(* Model::IsVisible on a node and its parent.                              *)

MaxVisTime == 1       \* the times Visibility is keyed and asked at are 0..MaxVisTime

\* Show, VisibilityInheritance and the value of Visibility at each time
VisNodeStates ==
    [ Show : BOOLEAN, VisibilityInheritance : BOOLEAN,
      Visibility : [0..MaxVisTime -> BOOLEAN] ]

\* Visibility.GetData(&vis, sizeof(bool), pTime) on node n
VisibilityAt(nodes, n, pTime) == nodes[n].Visibility[pTime]

RECURSIVE isVisible(_, _, _)
\* what Model::IsVisible(pTime) returns on node n
isVisible(nodes, n, pTime) ==
    IF ~nodes[n].Show THEN FALSE
    ELSE IF nodes[n].VisibilityInheritance /\ mParent(n) # Null
    THEN isVisible(nodes, mParent(n), pTime)
    ELSE VisibilityAt(nodes, n, pTime)

\* bool Model::IsVisible(const OFBTime *pTime)
IsVisible ==
    /\ \E n \in Nodes, pTime \in 0..MaxVisTime :
         visCall' = << [node |-> n, pTime |-> pTime, ret |-> isVisible(visNodes, n, pTime)] >>
    /\ UNCHANGED <<tokOnly, loadOnly, takeVars, s_message, curveVars,
                   mCacheTime, mLocalCache, mGlobalCache, lastCall,
                   evalNode, evalCall, visNodes>>

\* two nodes with any values of the three properties, before a call
VisInit ==
    /\ TokIdle
    /\ LoadIdle
    /\ CurveIdle
    /\ CacheIdle
    /\ EvalIdle
    /\ s_message = ""
    /\ visNodes \in [Nodes -> VisNodeStates]
    /\ visCall = <<>>

VisNext == IsVisible

VisSpec == VisInit /\ [][VisNext]_vars

RECURSIVE VisibleAsStated(_, _)
\* false when Show or the node's own Visibility at t is false, else the
\* parent's answer under VisibilityInheritance, else true
VisibleAsStated(n, t) ==
    IF ~visNodes[n].Show \/ ~visNodes[n].Visibility[t] THEN FALSE
    ELSE IF visNodes[n].VisibilityInheritance /\ mParent(n) # Null
    THEN VisibleAsStated(mParent(n), t)
    ELSE TRUE

\* C30: the latest IsVisible(t) call returned false if the node's Show or
\* its own Visibility at t is false, else the parent's IsVisible(t) if
\* VisibilityInheritance is on and the node has a parent, else true.
C30_VisibleAsStated ==
    \A c \in DOMAIN visCall :
        visCall[c].ret = VisibleAsStated(visCall[c].node, visCall[c].pTime)

=============================================================================
